---- MODULE Spec2Model ----
(***************************************************************************)
(* ScanScratch real-time SSTV transceiver loop.                            *)
(*                                                                         *)
(* Three threads share the state below: the control (UI) thread, the       *)
(* sound device's audio-callback thread and the decode worker.             *)
(*                                                                         *)
(* Numbers.  Sample amplitudes are integers in units of 1/Unit (float32    *)
(* 1.0 is Unit).  Durations that the decoder keeps as Python floats are    *)
(* integers in units of 1/Den sample ("ticks"); integer sample counts are  *)
(* plain integers.  Effect parameters are integers: natural units for      *)
(* bits, Hz and ms, thousandths for the [0,1] knobs and for the stretch    *)
(* rate, 0/1 for the enabled flags.                                        *)
(***************************************************************************)
EXTENDS Integers, Sequences, FiniteSets, TLC

\* ------------------------------------------------------------- bounds
Den == 2
BlockSize == 2
MaxUpdates == 2
MaxPauses == 1
MaxLen == 2
MaxSeg == 2
MaxPixel == 2
\* The delay line's length in samples (the 500 ms buffer), and the number of
\* samples fed through it.
MaxDelay == 3
MaxIn == 5
\* The largest width and height of a source image and of a frame, in pixels.
MaxSide == 4

\* --------------------------------------------------- program constants
Unit == 2
SampleRate == 44100

\* ------------------------------------------------------------ helpers
Min(a, b) == IF a <= b THEN a ELSE b

Max(a, b) == IF a >= b THEN a ELSE b

Abs(x) == IF x < 0 THEN -x ELSE x

RECURSIVE Pow2(_)
Pow2(n) == IF n <= 0 THEN 1 ELSE 2 * Pow2(n - 1)

\* Python round() / numpy.round of the rational n/d (d > 0): to nearest,
\* ties to the even integer.
RoundHalfEven(n, d) ==
    LET q == n \div d
        r == n % d
    IN  IF 2 * r < d THEN q
        ELSE IF 2 * r > d THEN q + 1
        ELSE IF q % 2 = 0 THEN q ELSE q + 1

\* Python int() of the rational n/d (d > 0): truncation toward zero.
Trunc(n, d) == IF n >= 0 THEN n \div d ELSE -((-n) \div d)

\* buf[lo:hi] for integer 0 <= lo, clamped to the buffer like a Python slice.
Slice(buf, lo, hi) ==
    LET h == Min(hi, Len(buf))
    IN  IF lo >= h THEN << >> ELSE SubSeq(buf, lo + 1, h)

Zeros(n) == [i \in 1..n |-> 0]

Peak(audio) ==
    IF audio = << >> THEN 0
    ELSE CHOOSE m \in {Abs(audio[i]) : i \in 1..Len(audio)} :
            \A i \in 1..Len(audio) : Abs(audio[i]) <= m

\* ------------------------------------------------- effects (src/effects)
\* The order configure() appends the effects in: the order of self.effects
\* and of the insertion-ordered dict effects_by_name.
EffectOrder ==
    << "phasemod", "ampmod", "syncwobble", "syncdropout", "scanline", "noise",
       "distortion", "harmonic", "bitcrush", "freqshift", "bandpass", "delay",
       "timestretch" >>

EffectNames == {EffectOrder[i] : i \in 1..Len(EffectOrder)}

\* The defaults of configure()'s settings.get(...) calls, keyed like
\* live_params by <<effect, parameter>>.
DefaultParams ==
    ( <<"phasemod", "enabled">> :> 0 @@ <<"phasemod", "depth">> :> 500
   @@ <<"phasemod", "rate">> :> 8
   @@ <<"ampmod", "enabled">> :> 0 @@ <<"ampmod", "depth">> :> 500
   @@ <<"ampmod", "rate">> :> 12
   @@ <<"syncwobble", "enabled">> :> 0 @@ <<"syncwobble", "amount">> :> 500
   @@ <<"syncwobble", "freq">> :> 5
   @@ <<"syncdropout", "enabled">> :> 0 @@ <<"syncdropout", "prob">> :> 100
   @@ <<"syncdropout", "duration">> :> 5
   @@ <<"scanline", "enabled">> :> 0 @@ <<"scanline", "freq">> :> 150
   @@ <<"scanline", "intensity">> :> 700
   @@ <<"noise", "enabled">> :> 0 @@ <<"noise", "amount">> :> 200
   @@ <<"distortion", "enabled">> :> 0 @@ <<"distortion", "drive">> :> 300
   @@ <<"distortion", "clip">> :> 800
   @@ <<"harmonic", "enabled">> :> 0 @@ <<"harmonic", "amount">> :> 500
   @@ <<"bitcrush", "enabled">> :> 0 @@ <<"bitcrush", "bits">> :> 8
   @@ <<"bitcrush", "rate">> :> 22050
   @@ <<"freqshift", "enabled">> :> 0 @@ <<"freqshift", "hz">> :> 0
   @@ <<"bandpass", "enabled">> :> 0 @@ <<"bandpass", "low">> :> 300
   @@ <<"bandpass", "high">> :> 3000
   @@ <<"delay", "enabled">> :> 0 @@ <<"delay", "time_ms">> :> 100
   @@ <<"delay", "feedback">> :> 400 @@ <<"delay", "mix">> :> 500
   @@ <<"timestretch", "enabled">> :> 0 @@ <<"timestretch", "rate">> :> 1000 )

ParamKeys == DOMAIN DefaultParams

\* settings.get(key, default) for a settings dict given as a function on some
\* of the keys.
SettingsGet(settings, k) ==
    IF k \in DOMAIN settings THEN settings[k] ELSE DefaultParams[k]

\* EffectsPipeline.configure: the live parameter map built from the settings.
Configure(settings) == [k \in ParamKeys |-> SettingsGet(settings, k)]

\* A configure that appends to the list it finds.
ConfigureEffectsKeep(prev) == prev \o EffectOrder

\* EffectsPipeline.configure on self.effects: the list is emptied, then the
\* thirteen effects are appended.
ConfigureEffects(prev) == SubSeq(prev, 1, 0) \o EffectOrder

\* self.effects_by_name[name] = effect on the dict's key order: a new key
\* goes to the end, an old one keeps its place.
DictInsert(keys, k) ==
    IF \E i \in 1..Len(keys) : keys[i] = k THEN keys ELSE Append(keys, k)

RECURSIVE DictInsertAll(_, _)
DictInsertAll(keys, names) ==
    IF names = << >> THEN keys
    ELSE DictInsertAll(DictInsert(keys, Head(names)), Tail(names))

\* EffectsPipeline.configure on self.effects_by_name: the dict is emptied,
\* then the thirteen names are inserted.
ConfigureByName(prev) == DictInsertAll(SubSeq(prev, 1, 0), EffectOrder)

\* d.setdefault(k, v): a key that is there keeps its value.
DictSetDefault(d, k, v) ==
    [x \in DOMAIN d \cup {k} |-> IF x \in DOMAIN d THEN d[x] ELSE v]

\* d[k] = v on a dict: the key is added if it is new.
DictSet(d, k, v) == [x \in DOMAIN d \cup {k} |-> IF x = k THEN v ELSE d[x]]

\* d.get(k, default)
DictGet(d, k, default) == IF k \in DOMAIN d THEN d[k] ELSE default

\* The constructor arguments configure() takes from the settings without
\* entering them in the live map: NoiseEffect's noise_type and
\* HarmonicDistortionEffect's harmonics (clamped to 1..5).
ConstructorOnly(settings) ==
    ( <<"noise", "type">> :> DictGet(settings, <<"noise", "type">>, "white")
   @@ <<"harmonic", "count">> :>
          Min(5, Max(1, DictGet(settings, <<"harmonic", "count">>, 3))) )

\* The values configure() passes to the effects' constructors, as the
\* constructors store them (self.depth, self.bits, ...).
EffectFields(settings) ==
    ConstructorOnly(settings) @@
    [k \in ParamKeys |->
        CASE k = <<"bitcrush", "bits">> ->
                 Max(1, Min(16, SettingsGet(settings, k)))
          [] k = <<"delay", "feedback">> ->
                 Min(900, SettingsGet(settings, k))
          [] k = <<"timestretch", "rate">> ->
                 Max(100, Min(4000, SettingsGet(settings, k)))
          [] OTHER -> SettingsGet(settings, k)]

\* The range each knob is declared with (the sliders of the parameter panel;
\* the time-stretch rate with the wider range its effect accepts), as
\* << lowest, highest >> in halves of the unit DefaultParams uses for the knob.
ParamDomain ==
    ( <<"phasemod", "depth">> :> << 0, 2000 >>
   @@ <<"phasemod", "rate">> :> << 1, 40 >>
   @@ <<"ampmod", "depth">> :> << 0, 2000 >>
   @@ <<"ampmod", "rate">> :> << 2, 50 >>
   @@ <<"syncwobble", "amount">> :> << 0, 2000 >>
   @@ <<"syncwobble", "freq">> :> << 1, 40 >>
   @@ <<"syncdropout", "prob">> :> << 0, 2000 >>
   @@ <<"syncdropout", "duration">> :> << 2, 40 >>
   @@ <<"scanline", "freq">> :> << 0, 2000 >>
   @@ <<"scanline", "intensity">> :> << 0, 2000 >>
   @@ <<"noise", "amount">> :> << 0, 2000 >>
   @@ <<"distortion", "drive">> :> << 0, 2000 >>
   @@ <<"distortion", "clip">> :> << 0, 2000 >>
   @@ <<"harmonic", "amount">> :> << 0, 2000 >>
   @@ <<"bitcrush", "bits">> :> << 2, 32 >>
   @@ <<"bitcrush", "rate">> :> << 2000, 88200 >>
   @@ <<"freqshift", "hz">> :> << -1000, 1000 >>
   @@ <<"bandpass", "low">> :> << 200, 4000 >>
   @@ <<"bandpass", "high">> :> << 2000, 20000 >>
   @@ <<"delay", "time_ms">> :> << 6, 1000 >>
   @@ <<"delay", "feedback">> :> << 0, 1800 >>
   @@ <<"delay", "mix">> :> << 0, 2000 >>
   @@ <<"timestretch", "rate">> :> << 200, 8000 >> )

\* A value a knob may hold: a switch is off or on, any other knob lies in its
\* declared range.
InDomain(k, v) ==
    IF k[2] = "enabled" THEN v \in {0, 1}
    ELSE ParamDomain[k][1] <= 2 * v /\ 2 * v <= ParamDomain[k][2]

\* BitcrushEffect._apply_bitcrush raises ZeroDivisionError in
\* sample_rate / target_rate.
BitcrushRaises(sample_rate, target_rate) ==
    target_rate < sample_rate /\ target_rate = 0

\* BitcrushEffect._apply_bitcrush: decimate-and-hold by the integer factor,
\* then quantise to 2^bits levels.
ApplyBitcrush(audio, sample_rate, bits0, target_rate) ==
    LET bits == Max(1, Min(16, bits0))
        factor == IF target_rate < sample_rate
                  THEN Max(1, Trunc(sample_rate, target_rate))
                  ELSE 1
        held == [i \in 1..Len(audio) |-> audio[((i - 1) \div factor) * factor + 1]]
        half == Pow2(bits - 1)
    IN  [i \in 1..Len(audio) |->
            (RoundHalfEven(held[i] * half, Unit) * Unit) \div half]

\* The effects whose arithmetic is transcendental or random are modelled on
\* the parameter values for which the code returns its input unchanged; the
\* model never runs them on other values (no CASE arm matches).
ApplyPhasemod(audio, depth) == CASE depth = 0 -> audio

ApplyAmpmod(audio, depth) == CASE depth = 0 -> audio

ApplyWobble(audio, amount) == CASE amount = 0 -> audio

ApplyDropout(audio, probability) == CASE probability = 0 -> audio

ApplyScanline(audio, frequency) == CASE frequency = 0 -> audio

\* audio + noise * amount
ApplyNoise(audio, amount) == CASE amount = 0 -> audio

\* audio * (1 - drive) + clipped * drive
ApplyDistortion(audio, drive) == CASE drive = 0 -> audio

ApplyHarmonic(audio, amount) == CASE amount = 0 -> audio

ApplyShift(audio, shift_hz) == CASE shift_hz = 0 -> audio

\* Batch band-pass: scipy's filtfilt raises ValueError for an input no longer
\* than padlen = 3 * 9 and the effect's except clause returns the input.
ApplyBandpass(audio) == CASE Len(audio) <= 27 -> audio

\* Delay: no delay for delay_samples <= 0; with mix = 0 each output sample is
\* sample * (1 - 0) + delayed * 0.
ApplyDelay(audio, sample_rate, delay_ms, mix) ==
    CASE Trunc(delay_ms * sample_rate, 1000) <= 0 -> audio
      [] mix = 0 -> audio

\* scipy.signal.resample(audio, num): num samples; each value stands for
\* the Fourier-resampled one by the input sample nearest before it.
Resample(audio, num) ==
    [i \in 1..num |-> audio[((i - 1) * Len(audio)) \div num + 1]]

\* A time stretch that returns the resampled block as it is.
ApplyTimestretchResampled(audio, rate) ==
    CASE Abs(rate - 1000) < 10 -> audio
      [] Abs(rate - 1000) >= 10 /\ Trunc(Len(audio) * 1000, rate) >= 1 ->
            Resample(audio, Trunc(Len(audio) * 1000, rate))

\* _apply_timestretch: the block itself for abs(rate - 1.0) < 0.01; else
\* the block resampled to int(len / rate) samples and padded with zeros or
\* cut to the original length.
ApplyTimestretch(audio, rate) ==
    CASE Abs(rate - 1000) < 10 -> audio
      [] Abs(rate - 1000) >= 10 /\ Trunc(Len(audio) * 1000, rate) >= 1 ->
            LET original_length == Len(audio)
                target_length == Trunc(original_length * 1000, rate)
                resampled == Resample(audio, target_length)
            IN  IF Len(resampled) < original_length
                THEN resampled \o Zeros(original_length - Len(resampled))
                ELSE SubSeq(resampled, 1, original_length)

\* effect.process(audio, sample_rate): the batch entry point, which reads the
\* constructor's values.
BatchRaises(e, audio, sample_rate, fields) ==
    e = "bitcrush" /\ BitcrushRaises(sample_rate, fields[<<"bitcrush", "rate">>])

BatchApply(e, audio, sample_rate, fields) ==
    CASE e = "phasemod" -> ApplyPhasemod(audio, fields[<<e, "depth">>])
      [] e = "ampmod" -> ApplyAmpmod(audio, fields[<<e, "depth">>])
      [] e = "syncwobble" -> ApplyWobble(audio, fields[<<e, "amount">>])
      [] e = "syncdropout" -> ApplyDropout(audio, fields[<<e, "prob">>])
      [] e = "scanline" -> ApplyScanline(audio, fields[<<e, "freq">>])
      [] e = "noise" -> ApplyNoise(audio, fields[<<e, "amount">>])
      [] e = "distortion" -> ApplyDistortion(audio, fields[<<e, "drive">>])
      [] e = "harmonic" -> ApplyHarmonic(audio, fields[<<e, "amount">>])
      [] e = "bitcrush" -> ApplyBitcrush(audio, sample_rate, fields[<<e, "bits">>],
                                         fields[<<e, "rate">>])
      [] e = "freqshift" -> ApplyShift(audio, fields[<<e, "hz">>])
      [] e = "bandpass" -> ApplyBandpass(audio)
      [] e = "delay" -> ApplyDelay(audio, sample_rate, fields[<<e, "time_ms">>],
                                   fields[<<e, "mix">>])
      [] e = "timestretch" -> ApplyTimestretch(audio, fields[<<e, "rate">>])

\* effect.process_chunk(audio, sample_rate, live_params): every parameter is
\* read from the live map.
ChunkRaises(e, audio, sample_rate, live) ==
    e = "bitcrush" /\ BitcrushRaises(sample_rate, live[<<"bitcrush", "rate">>])

ChunkApply(e, audio, sample_rate, live) ==
    CASE e = "phasemod" -> ApplyPhasemod(audio, live[<<e, "depth">>])
      [] e = "ampmod" -> ApplyAmpmod(audio, live[<<e, "depth">>])
      [] e = "syncwobble" -> ApplyWobble(audio, live[<<e, "amount">>])
      [] e = "syncdropout" -> ApplyDropout(audio, live[<<e, "prob">>])
      [] e = "scanline" -> ApplyScanline(audio, live[<<e, "freq">>])
      [] e = "noise" -> ApplyNoise(audio, live[<<e, "amount">>])
      [] e = "distortion" -> ApplyDistortion(audio, live[<<e, "drive">>])
      [] e = "harmonic" -> ApplyHarmonic(audio, live[<<e, "amount">>])
      [] e = "bitcrush" -> ApplyBitcrush(audio, sample_rate, live[<<e, "bits">>],
                                         live[<<e, "rate">>])
      [] e = "freqshift" -> ApplyShift(audio, live[<<e, "hz">>])
      [] e = "delay" -> ApplyDelay(audio, sample_rate, live[<<e, "time_ms">>],
                                   live[<<e, "mix">>])
      [] e = "timestretch" ->
            ApplyTimestretch(audio, Max(100, Min(4000, live[<<e, "rate">>])))

\* A clipping guard that scales every block to full scale.
NormalizeToPeak(result) ==
    LET max_val == Peak(result)
    IN  IF max_val > 0
        THEN [i \in 1..Len(result) |-> RoundHalfEven(result[i] * Unit, max_val)]
        ELSE result

\* The clipping guard that ends process and process_chunk: divide by the peak
\* if it exceeds 1.0 (the quotient is put back on the amplitude grid).
Normalize(result) ==
    LET max_val == Peak(result)
    IN  IF max_val > Unit
        THEN [i \in 1..Len(result) |-> RoundHalfEven(result[i] * Unit, max_val)]
        ELSE result

\* Every enabled entry of a parameter map is false.
AllDisabled(params) == \A e \in EffectNames : params[<<e, "enabled">>] = 0

\* live_params.get((effect_name, "enabled"), False), by Python truthiness.
EffectEnabled(live, e) == live[<<e, "enabled">>] # 0

\* EffectsPipeline.process: every effect of self.effects in order.  out.raised
\* is set when an effect raised (the exception leaves process).
RECURSIVE BatchFrom(_, _, _, _)
BatchFrom(i, audio, sample_rate, fields) ==
    IF i > Len(EffectOrder) THEN [raised |-> FALSE, audio |-> Normalize(audio)]
    ELSE IF BatchRaises(EffectOrder[i], audio, sample_rate, fields)
         THEN [raised |-> TRUE, audio |-> audio]
         ELSE BatchFrom(i + 1, BatchApply(EffectOrder[i], audio, sample_rate, fields),
                        sample_rate, fields)

Process(audio, sample_rate, fields) == BatchFrom(1, audio, sample_rate, fields)

\* The loop of process_chunk over the keys of effects_by_name from number i
\* on: skip the effects whose enabled entry is false, run the others.
\* applied lists the effects whose process_chunk was called.
RECURSIVE ChainOver(_, _, _, _, _)
ChainOver(names, i, audio, sample_rate, live) ==
    IF i > Len(names)
    THEN [raised |-> FALSE, audio |-> Normalize(audio), applied |-> << >>]
    ELSE IF ~EffectEnabled(live, names[i])
         THEN ChainOver(names, i + 1, audio, sample_rate, live)
         ELSE IF ChunkRaises(names[i], audio, sample_rate, live)
              THEN [raised |-> TRUE, audio |-> audio, applied |-> << names[i] >>]
              ELSE LET r == ChainOver(names, i + 1,
                                      ChunkApply(names[i], audio, sample_rate, live),
                                      sample_rate, live)
                   IN  [r EXCEPT !.applied = << names[i] >> \o r.applied]

\* The loop of process_chunk of a pipeline that configure() set up once.
ChainFrom(i, audio, sample_rate, live) ==
    LET r == ChainOver(EffectOrder, i, audio, sample_rate, live)
    IN  [raised |-> r.raised, audio |-> r.audio]

\* EffectsPipeline._drain_param_queue run to completion on a queue that no one
\* appends to meanwhile.
RECURSIVE DrainAll(_, _)
DrainAll(live, q) ==
    IF q = << >> THEN live
    ELSE DrainAll(DictSet(live, <<q[1][1], q[1][2]>>, q[1][3]), Tail(q))

\* The parameters of the effects as the parameter panel's settings name
\* them: every knob of the live map, the noise type and the harmonic count.
TableParams ==
    {k \in ParamKeys : k[2] # "enabled"}
    \cup {<<"noise", "type">>, <<"harmonic", "count">>}

\* A process_chunk that reads every parameter from the live map.
UsedParamLive(k, live, fields) == DictGet(live, k, fields[k])

\* The value effect k[1]'s process_chunk uses for parameter k[2]:
\* live_params.get(key, self.field), except for the noise type and the
\* harmonic count, where it is the constructor's value; the feedback is
\* limited to 0.9.
UsedParam(k, live, fields) ==
    CASE k = <<"noise", "type">> -> fields[k]
      [] k = <<"harmonic", "count">> -> fields[k]
      [] k = <<"delay", "feedback">> -> Min(900, DictGet(live, k, fields[k]))
      [] OTHER -> DictGet(live, k, fields[k])


\* ------------------------------------------------------- timing (sstv)
\* The mode descriptors of the model: header, sync, gap and scan durations in
\* ticks of 1/Den sample (the decoder's spec[...] * ms_to_samples), and the
\* frame height in lines.  The first is integral throughout; in the second
\* the encoder's rounded line is longer than the decoder's, in the third it
\* is shorter; the fourth has a gap.
ModeTable ==
    { [header_t |-> Den, sync_t |-> Den, gap_t |-> 0, scan_t |-> Den, height |-> 2],
      [header_t |-> Den, sync_t |-> Den + 1, gap_t |-> 0, scan_t |-> Den, height |-> 2],
      [header_t |-> Den, sync_t |-> 1, gap_t |-> 0, scan_t |-> Den, height |-> 2],
      [header_t |-> Den, sync_t |-> Den, gap_t |-> Den, scan_t |-> Den, height |-> 1] }

\* The descriptor with a gap: the one used where the decoder plays no part.
GapMode == CHOOSE m \in ModeTable : m.gap_t # 0

\* StreamingDecoder.__init__: line_samples, kept as a float.
LineSamplesT(m) == m.sync_t + 4 * m.gap_t + 3 * m.scan_t

\* encode_custom_mode: int(round(duration * ms_to_samples)) per segment.
SegmentSamples(t) == RoundHalfEven(t, Den)

\* encode_custom_mode: the number of samples of the encoded audio: the header
\* tone, then per line sync, gap and three times scan + gap (add_tone and
\* add_channel append nothing for a count <= 0).
EncodedLength(m) ==
    Max(0, SegmentSamples(m.header_t))
    + m.height * ( Max(0, SegmentSamples(m.sync_t))
                 + 4 * Max(0, SegmentSamples(m.gap_t))
                 + 3 * Max(0, SegmentSamples(m.scan_t)) )

\* One cycle of a sine tone at eight samples per cycle, in amplitude units:
\* the encoder's sin(phase) output stands behind it.
ToneTable == << 0, 1, 2, 1, 0, -1, -2, -1 >>

\* The tone samples a segment of num_samples appends to the audio so far:
\* the phase carries on from the last sample.
ToneChunk(audio, num_samples) ==
    [i \in 1..num_samples |-> ToneTable[((Len(audio) + i - 1) % Len(ToneTable)) + 1]]

\* A tone segment that is never shorter than one sample.
AddToneAtLeastOne(audio, num_samples) ==
    audio \o ToneChunk(audio, Max(1, num_samples))

\* encode_custom_mode.add_tone: nothing for num_samples <= 0, else the chunk
\* is appended.
AddTone(audio, num_samples) ==
    IF num_samples <= 0 THEN audio ELSE audio \o ToneChunk(audio, num_samples)

\* encode_custom_mode.add_channel: nothing for scan_samples <= 0, else one
\* chunk of scan_samples samples.
AddChannel(audio, scan_samples) ==
    IF scan_samples <= 0 THEN audio ELSE audio \o ToneChunk(audio, scan_samples)

\* The body of encode_custom_mode's loop over the scanlines: sync, gap, and
\* for each of the three channels the scan and a gap.
EncodeLine(audio, m) ==
    LET sync_samples == SegmentSamples(m.sync_t)
        scan_samples == SegmentSamples(m.scan_t)
        gap_samples == SegmentSamples(m.gap_t)
        a1 == AddTone(AddTone(audio, sync_samples), gap_samples)
        a2 == AddTone(AddChannel(a1, scan_samples), gap_samples)
        a3 == AddTone(AddChannel(a2, scan_samples), gap_samples)
    IN AddTone(AddChannel(a3, scan_samples), gap_samples)

\* encode_custom_mode's loop: for y in range(height).
RECURSIVE EncodeLines(_, _, _)
EncodeLines(audio, m, lines) ==
    IF lines <= 0 THEN audio ELSE EncodeLines(EncodeLine(audio, m), m, lines - 1)

\* encode_custom_mode: the header tone, then the scanlines, concatenated.
Encode(m) == EncodeLines(AddTone(<< >>, SegmentSamples(m.header_t)), m, m.height)

\* The index of the first sample of a line in the audio encode_custom_mode
\* builds: the samples appended before the line's sync tone.
EncoderLineStart(m, line_num) ==
    Len(EncodeLines(AddTone(<< >>, SegmentSamples(m.header_t)), m, line_num))

\* decode_progressive: line_start =
\* int(round(header_samples + line_num * line_samples)).
DecoderLineStart(m, line_num) ==
    RoundHalfEven(m.header_t + line_num * LineSamplesT(m), Den)

\* The names in the encoder's MODE_SPECS, as far as the model tells them
\* apart: "NativeRes", whose class is None and which encode_custom_mode
\* synthesises, and a catalogue mode that is handed to a pysstv class.
KnownModes == {"NativeRes", "MartinM1"}

CustomModes == {"NativeRes"}

\* list(sstv.gen_samples()) for a catalogue mode: pysstv emits int(samples)
\* samples per segment and carries the fraction into the next segment, so the
\* count is the whole number of samples in the total duration.
PysstvLength(m) == Trunc(m.header_t + m.height * LineSamplesT(m), Den)

EncodePysstv(m) == [i \in 1..PysstvLength(m) |-> ToneTable[((i - 1) % Len(ToneTable)) + 1]]

\* An encoder that falls back to the catalogue mode for a name it does not
\* know.
SSTVEncoderEncodeDefault(name, m) ==
    [raised |-> FALSE,
     audio |-> IF name \in CustomModes THEN Encode(m) ELSE EncodePysstv(m)]

\* SSTVEncoder.encode(image, mode): ValueError for a name that is not in
\* MODE_SPECS, else the audio of the custom encoder or of pysstv.
SSTVEncoderEncode(name, m) ==
    [raised |-> name \notin KnownModes,
     audio |-> IF name \in CustomModes THEN Encode(m) ELSE EncodePysstv(m)]

\* ---------------------------------------------------- line decoders
\* The color_order values of the decoder's MODE_SPECS.
ColorOrders == {"GBR", "RGB", "YCrCb"}

\* What a decoder's channel extraction makes of the three scan segments of a
\* line: one pixel value per segment.
Pixels == 0..MaxPixel

\* decode_line_from_audio (the worker's live decoder): the line's
\* << R, G, B >> from the segments << ch1, ch2, ch3 >>.
DecodeLineLive(order, seg) ==
    IF order = "RGB"
    THEN << seg[1], seg[2], seg[3] >>
    ELSE << seg[3], seg[1], seg[2] >>

\* StreamingDecoder._decode_line (the batch decoder): the line's << R, G, B >>
\* from the segments at green_start, blue_start and red_start.
DecodeLineBatch(order, seg) ==
    CASE order = "GBR" -> << seg[3], seg[1], seg[2] >>
      [] order = "RGB" -> << seg[1], seg[2], seg[3] >>
      [] OTHER -> << seg[1], seg[1], seg[1] >>

\* The two decoders before they are run on a line.
DecIdle == [order |-> "GBR", seg |-> << 0, 0, 0 >>, batch |-> << >>, live |-> << >>]

\* ------------------------------------------------- fit_image_to_frame
\* fit_image_to_frame: the crop box (left, top, right, bottom) for a source
\* of img_width x img_height in a frame of frame_width x frame_height.  The
\* ratios are compared and the new side is cut to an integer as the floats
\* are: img_ratio > frame_ratio, int(frame_width / img_ratio),
\* int(frame_height * img_ratio).
FitImageToFrame(img_width, img_height, frame_width, frame_height) ==
    IF img_width * frame_height > frame_width * img_height
    THEN LET new_width == frame_width
             new_height == (frame_width * img_height) \div img_width
             top_pad == (frame_height - new_height) \div 2
         IN << 0, top_pad, new_width, top_pad + new_height >>
    ELSE LET new_height == frame_height
             new_width == (frame_height * img_width) \div img_height
             left_pad == (frame_width - new_width) \div 2
         IN << left_pad, 0, left_pad + new_width, new_height >>

\* No image fitted.
FitIdle == [w |-> 1, h |-> 1, fw |-> 1, fh |-> 1, box |-> << >>]

\* ------------------------------------------------------ DelayEffect
\* Samples of the delay line are whole multiples of 10^-MaxIn; feedback and
\* mix are in tenths.
RECURSIVE Pow10(_)
Pow10(n) == IF n <= 0 THEN 1 ELSE 10 * Pow10(n - 1)

\* The sample rate at which 500 ms are MaxDelay samples.
DelayRate == 2 * MaxDelay

\* _apply_delay_streaming: delay_samples = int(delay_ms * sample_rate / 1000)
DelaySamples(delay_ms, sample_rate) == Trunc(delay_ms * sample_rate, 1000)

\* _apply_delay_streaming: max_delay = int(500 * sample_rate / 1000)
DelayBufferLen(sample_rate) == Trunc(500 * sample_rate, 1000)

\* A read position that is held at the start of the buffer instead of
\* wrapping round.
DelayReadPosClamped(buffer_pos, delay_samples, length) ==
    Max(0, buffer_pos - delay_samples)

\* _apply_delay_streaming: read_pos = (buffer_pos - delay_samples) % len
DelayReadPos(buffer_pos, delay_samples, length) ==
    (buffer_pos - delay_samples) % length

\* _apply_delay_streaming's loop over the samples of a chunk: st holds
\* _delay_buffer, _buffer_pos, the output so far and the values written to
\* the delay line so far.
RECURSIVE DelayLoop(_, _, _, _, _)
DelayLoop(st, chunk, delay_samples, feedback, mix) ==
    IF chunk = << >> THEN st
    ELSE LET sample == Head(chunk)
             length == Len(st.buf)
             read_pos == DelayReadPos(st.pos, delay_samples, length)
             delayed == st.buf[read_pos + 1]
             write == sample + (delayed * feedback) \div 10
             o == (sample * (10 - mix) + delayed * mix) \div 10
         IN DelayLoop([buf |-> [st.buf EXCEPT ![st.pos + 1] = write],
                       pos |-> (st.pos + 1) % length,
                       out |-> Append(st.out, o),
                       written |-> Append(st.written, write)],
                      Tail(chunk), delay_samples, feedback, mix)

\* _apply_delay_streaming: the chunk is returned as it is for a delay of no
\* sample; the buffer is allocated (and the position reset) when there is
\* none or it is shorter than max_delay; then the loop.
ApplyDelayStreaming(st, chunk, sample_rate, delay_ms, feedback, mix) ==
    LET delay_samples == DelaySamples(delay_ms, sample_rate)
        max_delay == DelayBufferLen(sample_rate)
        st0 == IF Len(st.buf) < max_delay
               THEN [st EXCEPT !.buf = Zeros(max_delay), !.pos = 0]
               ELSE st
    IN  IF delay_samples <= 0
        THEN [st EXCEPT !.out = st.out \o chunk]
        ELSE DelayLoop(st0, chunk, delay_samples, feedback, mix)

\* DelayEffect.__init__: no buffer yet (_delay_buffer None), position 0.
DelayFresh == [buf |-> << >>, pos |-> 0, out |-> << >>, written |-> << >>]

\* DelayEffect.process_chunk: the parameters are read from the live map,
\* the feedback limited to 0.9.
DelayProcessChunk(st, chunk, sample_rate, p) ==
    ApplyDelayStreaming(st, chunk, sample_rate, p.time_ms, Min(9, p.feedback),
                        p.mix)

\* A delay effect at rest: nothing to process.
DelayIdle ==
    [x |-> << >>, p |-> [time_ms |-> 0, feedback |-> 0, mix |-> 0], n |-> 0,
     calls |-> 0, st |-> DelayFresh]

\* ------------------------------------------ RealTimeAudioPlayer helpers
\* A callback that reads from the start of the clean audio whatever the
\* position is.
ReadChunkRewind(audio, pos, frames) ==
    LET got == Slice(audio, 0, Min(frames, Len(audio)))
    IN  got \o Zeros(frames - Len(got))

\* _audio_callback: the next `frames` clean samples from `position`, padded
\* with zeros past the end.
ReadChunk(audio, pos, frames) ==
    LET end_pos == Min(pos + frames, Len(audio))
        got == Slice(audio, pos, end_pos)
    IN  got \o Zeros(frames - Len(got))

\* _audio_callback: write_end of the store into the processed buffer.
WriteEnd(pp, n, buflen) == Min(pp + n, buflen)

\* _audio_callback: the indices processed_buffer[pp:write_end] names.
WriteRange(pp, n, buflen) ==
    IF WriteEnd(pp, n, buflen) - pp > 0 THEN pp..(WriteEnd(pp, n, buflen) - 1) ELSE {}

\* A store that puts the block at the start of the buffer.
StoreProcessedAtStart(buf, pp, processed) ==
    LET write_end == WriteEnd(pp, Len(processed), Len(buf))
        write_len == write_end - pp
    IN  IF write_len > 0
        THEN [i \in 1..Len(buf) |->
                 IF i <= write_len THEN processed[i] ELSE buf[i]]
        ELSE buf

\* _audio_callback: the buffer after processed_buffer[pp:write_end] =
\* processed[:write_len].
StoreProcessed(buf, pp, processed) ==
    LET write_end == WriteEnd(pp, Len(processed), Len(buf))
        write_len == write_end - pp
    IN  IF write_len > 0
        THEN [i \in 1..Len(buf) |->
                 IF i > pp /\ i <= write_end THEN processed[i - pp] ELSE buf[i]]
        ELSE buf

\* A write cursor that wraps to the start of the buffer when the store reaches
\* its end.
AdvanceProcessedWrap(buf, pp, processed) ==
    IF pp + Len(processed) >= Len(buf) THEN 0 ELSE pp + Len(processed)

\* _audio_callback: processed_position after the store.
AdvanceProcessed(buf, pp, processed) ==
    LET write_end == WriteEnd(pp, Len(processed), Len(buf))
    IN  IF write_end - pp > 0 THEN write_end ELSE pp

\* get_processed_audio without the cut of end to the cursor.
GetProcessedAudioUncut(buf, pp, start_t, end_t, how) ==
    IF start_t >= end_t
    THEN [raised |-> FALSE, audio |-> << >>, lo |-> 0, hi |-> 0]
    ELSE IF how = "TypeError"
    THEN [raised |-> TRUE, audio |-> << >>, lo |-> 0, hi |-> 0]
    ELSE [raised |-> FALSE,
          audio |-> Slice(buf, Trunc(start_t, Den), Trunc(end_t, Den)),
          lo |-> Trunc(start_t, Den),
          hi |-> Min(Trunc(end_t, Den), Len(buf))]

\* get_processed_audio(start, end), with start and end the worker's floats
\* in ticks.  The cut end = min(end, processed_position); an empty result for
\* start >= end; otherwise the slice processed_buffer[start:end], whose
\* bounds are floats: numpy from 1.12 on raises TypeError for them, earlier
\* releases truncate them (how is the build's numpy, np_index).  lo and hi
\* are the sample indices the result covers.
GetProcessedAudio(buf, pp, start_t, end_t, how) ==
    LET cut_t == Min(end_t, pp * Den)
    IN  IF start_t >= cut_t
        THEN [raised |-> FALSE, audio |-> << >>, lo |-> 0, hi |-> 0]
        ELSE IF how = "TypeError"
        THEN [raised |-> TRUE, audio |-> << >>, lo |-> 0, hi |-> 0]
        ELSE [raised |-> FALSE,
              audio |-> Slice(buf, Trunc(start_t, Den), Trunc(cut_t, Den)),
              lo |-> Trunc(start_t, Den),
              hi |-> Min(Trunc(cut_t, Den), Len(buf))]

\* is_paused(): hasattr(self, '_paused') and self._paused
IsPaused(p) == p = "true"

\* is_active(): the stream exists and is active or paused.
IsActive(strm, act, p) == strm # "none" /\ (act \/ IsPaused(p))

\* ------------------------------------- StreamingTransmissionWorker helpers
\* run(): the last line whose samples are all below processed_pos, by
\* (processed_pos - header_samples) // line_samples - 1.
DecodableLine(processed_pos, m) ==
    IF processed_pos * Den < m.header_t THEN -1
    ELSE ((processed_pos * Den - m.header_t) \div LineSamplesT(m)) - 1

\* run(): line_start = header_samples + line_num * line_samples
LineStartT(m, line_num) == m.header_t + line_num * LineSamplesT(m)

\* A loop that takes line 0 and then does not advance.
NextLineNumStuck(last) == IF last < 0 THEN 0 ELSE last

\* run(): the line number the decode loops take next.
NextLineNum(last) == last + 1

\* run(): len(line_audio) >= line_samples
LineComplete(line_audio, m) == Len(line_audio) * Den >= LineSamplesT(m)

\* run(): progress = 15 + int((line_num / total_lines) * 70)
\* A progress that counts the lines still to come.
LineProgressRemaining(line_num, total_lines) ==
    15 + (((total_lines - line_num) * 70) \div total_lines)

LineProgress(line_num, total_lines) == 15 + ((line_num * 70) \div total_lines)

\* The worker's position before the player exists: the control thread has no
\* player (and no pipeline) to act on until audio_player_ready.
BeforePlayer == {"init", "setup", "except_noplayer"}


\* ---------------------------------------------------------------- state
VARIABLES
    sstv_mode,              \* settings["sstv_mode"]: the mode's name
    worker_settings,        \* StreamingTransmissionWorker.settings (the knobs)
    mode,                   \* the mode descriptor of the transmission
    np_index,               \* the build's numpy: "TypeError" or "truncate"
    clean_audio,            \* RealTimeAudioPlayer.clean_audio
    effects,                \* the effect objects' constructor-time fields
    pipe,                   \* a pipeline used on its own: results of process
                            \* and of the process_chunk calls so far
    position,               \* RealTimeAudioPlayer.position
    processed_buffer,       \* RealTimeAudioPlayer.processed_buffer
    processed_position,     \* RealTimeAudioPlayer.processed_position
    stream,                 \* _stream: "none", "open", "closed" (not yet None)
    active,                 \* _stream.active
    paused,                 \* _paused: "unset", "true", "false"
    player_stop_requested,  \* RealTimeAudioPlayer._stop_requested
    live_params,            \* EffectsPipeline.live_params
    param_queue,            \* EffectsPipeline._param_queue
    cb,                     \* the audio callback in flight: pc and locals
    outdata,                \* the block last handed to the device
    cb_raised,              \* what the last callback raised into the device layer
    w_pc,                   \* the worker's position in run()
    worker_stop_requested,  \* StreamingTransmissionWorker._stop_requested
    last_decoded_line,      \* run(): last_decoded_line
    decodable_line,         \* run(): decodable_line
    events,                 \* the signals the worker has emitted, in order
    last_read,              \* the last get_processed_audio call and its result
    ui_pc,                  \* the control thread's position
    stop_pc,                \* per thread: its position inside player.stop()
    thread_exc,             \* per thread: the exception that left its handler
    n_updates,              \* update_param calls made so far
    n_pauses,               \* pause() calls made so far
    ui_stopped,             \* _on_stop_transmission has run
    hist,                   \* history: what the claims compare against
    dec,                    \* one line given to both line decoders, and their results
    fit,                    \* a source size, a frame size and fit_image_to_frame's crop box
    dl                      \* a delay effect fed an input in chunks: x the input, p the
                            \* frozen parameters, n the samples fed, st the effect's state

\* The state of a transmission.
transVars ==
    << sstv_mode, worker_settings, mode, np_index, clean_audio, effects, pipe, position, processed_buffer,
       processed_position, stream, active, paused, player_stop_requested, live_params, param_queue, cb,
       outdata, cb_raised, w_pc, worker_stop_requested, last_decoded_line,
       decodable_line, events, last_read, ui_pc, stop_pc, thread_exc, n_updates,
       n_pauses, ui_stopped, hist >>

\* The units used on their own: a transmission leaves them alone.
unitVars == << dec, dl, fit >>

vars == << transVars, unitVars >>

playerVars ==
    << position, processed_buffer, processed_position, outdata, cb_raised >>

streamVars == << stream, active, paused, player_stop_requested >>

pipeVars == << live_params, param_queue >>

workerVars ==
    << w_pc, worker_stop_requested, last_decoded_line, decodable_line, events,
       last_read >>

uiVars == << ui_pc, n_updates, n_pauses, ui_stopped >>

\* What a transmission never changes.
constVars ==
    << unitVars, sstv_mode, worker_settings, mode, np_index, clean_audio, effects, pipe >>

Threads == {"ui", "worker"}

\* The settings snapshots a transmission starts from: the defaults (every
\* effect disabled), and bit-crushing switched on.
SettingsTable ==
    { << >>,
      (<<"bitcrush", "enabled">> :> 1) }

\* The updates the control thread sends: switch an effect on, set a knob, and
\* a rate that makes the bit-crusher divide by zero.
ParamUpdates ==
    { <<"bitcrush", "enabled", 1>>, <<"bitcrush", "bits", 1>>,
      <<"bitcrush", "rate", 0>>, <<"freqshift", "enabled", 1>> }

\* The settings of a pipeline used on its own: every knob at the position
\* where its effect returns the input, the bit-crusher at its defaults (eight
\* bits, half the sample rate), every effect disabled.
NeutralSettings ==
    ( <<"phasemod", "depth">> :> 0 @@ <<"ampmod", "depth">> :> 0
   @@ <<"syncwobble", "amount">> :> 0 @@ <<"syncdropout", "prob">> :> 0
   @@ <<"scanline", "freq">> :> 0 @@ <<"noise", "amount">> :> 0
   @@ <<"distortion", "drive">> :> 0 @@ <<"harmonic", "amount">> :> 0
   @@ <<"delay", "time_ms">> :> 0 )

\* The same with the first, a middle and the last two of the effects that
\* have a chunk model switched on.
SeveralOnSettings ==
    (<<"phasemod", "enabled">> :> 1) @@ (<<"bitcrush", "enabled">> :> 1)
    @@ (<<"freqshift", "enabled">> :> 1) @@ (<<"timestretch", "enabled">> :> 1)
    @@ NeutralSettings

PipeSettingsTable ==
    { NeutralSettings,
      (<<"bitcrush", "enabled">> :> 1) @@ NeutralSettings }

\* The settings of a pipeline that is configured more than once.
ChainSettingsTable == { NeutralSettings, SeveralOnSettings }

\* The sample values of the buffers a pipeline is run on: the amplitude grid
\* from -1.0 to 1.0.
Samples == (0 - Unit)..Unit

\* A pipeline after its first configure: effects and by_name are
\* self.effects and the keys of self.effects_by_name; applied and at_call
\* are the effects the last process_chunk ran and the ones enabled in the
\* live map it read; drained is the last value per key of the updates that
\* call took from the queue; reconfigured tells that configure was called
\* again.
PipeIdle ==
    [done |-> FALSE, raised |-> FALSE, batch |-> << >>, calls |-> 0, pos |-> 0,
     out |-> << >>, effects |-> ConfigureEffects(<< >>),
     by_name |-> ConfigureByName(<< >>), applied |-> << >>, at_call |-> {},
     drained |-> << >>,
     reconfigured |-> FALSE]

\* The updates sent to a pipeline used on its own: a knob of a disabled
\* effect, and the switch that enables it.
PipeParamUpdates == { <<"bitcrush", "bits", 1>>, <<"bitcrush", "enabled", 1>> }

CbIdle == [pc |-> "idle", chunk |-> << >>, processed |-> << >>, fx_i |-> 0]

HistInit ==
    [ expect_live |-> << >>,  \* the live map the updates enqueued before the
                              \* callback began lead to
      drained_live |-> << >>, \* the live map when the drain found the queue empty
      late_keys |-> {},       \* keys updated since the callback began
      cb_failed |-> FALSE,    \* effect processing raised in this callback
      pp_before |-> 0,        \* processed_position before the last store
      never_enabled |-> TRUE, \* no effect has been enabled in the live map yet
      worker_failed |-> FALSE,\* a step of run() raised after the player's start
      eos_signals |-> 0,      \* callbacks that raised CallbackStop so far
      pause_pos |-> -1,       \* position when the last pause() halted the stream
      awaiting |-> FALSE,     \* resume() started the stream, no callback yet
      resume_read |-> << -1 >>, \* the chunk the first callback after resume read
      written |-> {},         \* the buffer indices stored to so far
      rewritten |-> FALSE,    \* a store went to an index stored to before
      sent |-> << >>,         \* per key, the value of the last update_param so far
      exit_pp |-> -1 ]        \* processed_position when the worker left the live loop

\* After RealTimeAudioPlayer.__init__, pipeline.configure and the decoder's
\* construction, before audio_player.start().
InitTransmission(modes, hows, settingses, audios) ==
    /\ sstv_mode = "NativeRes"
    /\ mode \in modes
    /\ np_index \in hows
    /\ clean_audio \in audios[mode]
    /\ pipe = PipeIdle
    /\ position = 0
    /\ processed_buffer = Zeros(Len(clean_audio))
    /\ processed_position = 0
    /\ stream = "none"
    /\ active = FALSE
    /\ paused = "unset"
    /\ player_stop_requested = FALSE
    /\ \E s \in settingses :
          /\ worker_settings = s
          /\ live_params = Configure(s)
          /\ effects = EffectFields(s)
          /\ hist = [HistInit EXCEPT
                        !.never_enabled =
                            AllDisabled(Configure(s))]
    /\ param_queue = << >>
    /\ cb = CbIdle
    /\ outdata = << >>
    /\ cb_raised = "none"
    /\ w_pc = "start"
    /\ worker_stop_requested = FALSE
    /\ last_decoded_line = -1
    /\ decodable_line = -1
    /\ events = << >>
    /\ last_read = [lo |-> 0, hi |-> 0, pp |-> 0, n |-> 0]
    /\ ui_pc = "idle"
    /\ stop_pc = [t \in Threads |-> "idle"]
    /\ thread_exc = [t \in Threads |-> "none"]
    /\ n_updates = 0
    /\ n_pauses = 0
    /\ ui_stopped = FALSE

\* A transmission, with the units that are used on their own at rest.
InitWith(modes, hows, settingses, audios) ==
    /\ InitTransmission(modes, hows, settingses, audios)
    /\ dec = DecIdle
    /\ dl = DelayIdle
    /\ fit = FitIdle

\* Before run(): the worker holds the settings (the mode's name and the
\* knobs); no audio, no pipeline, no player yet.
InitRunWith(names, modes, hows, settingses) ==
    /\ dec = DecIdle
    /\ dl = DelayIdle
    /\ fit = FitIdle
    /\ sstv_mode \in names
    /\ worker_settings \in settingses
    /\ mode \in modes
    /\ np_index \in hows
    /\ clean_audio = << >>
    /\ effects = << >>
    /\ pipe = PipeIdle
    /\ position = 0
    /\ processed_buffer = << >>
    /\ processed_position = 0
    /\ stream = "none"
    /\ active = FALSE
    /\ paused = "unset"
    /\ player_stop_requested = FALSE
    /\ live_params = << >>
    /\ param_queue = << >>
    /\ cb = CbIdle
    /\ outdata = << >>
    /\ cb_raised = "none"
    /\ w_pc = "init"
    /\ worker_stop_requested = FALSE
    /\ last_decoded_line = -1
    /\ decodable_line = -1
    /\ events = << >>
    /\ last_read = [lo |-> 0, hi |-> 0, pp |-> 0, n |-> 0]
    /\ ui_pc = "idle"
    /\ stop_pc = [t \in Threads |-> "idle"]
    /\ thread_exc = [t \in Threads |-> "none"]
    /\ n_updates = 0
    /\ n_pauses = 0
    /\ ui_stopped = FALSE
    /\ hist = HistInit

\* The clean audio of a transmission: what the encoder made of the image.
EncodedAudio == [m \in ModeTable |-> {Encode(m)}]

Init == InitWith(ModeTable, {"TypeError", "truncate"}, SettingsTable, EncodedAudio)


\* ------------------------------------------------- the audio callback
\* A get that empties the queue: the oldest item, the others lost.
QueueGetDiscard(q) == [item |-> Head(q), rest |-> << >>]

\* queue.Queue.get_nowait(): the oldest item and the queue without it.
QueueGet(q) == [item |-> Head(q), rest |-> Tail(q)]

\* An update_param that also writes the value into the live map.
UpdateParamDirect(live, u) == [live EXCEPT ![<<u[1], u[2]>>] = u[3]]

\* update_param's effect on the live map: none, it only enqueues.
UpdateParamLive(live, u) == live

\* The except clause of _audio_callback around process_chunk: the callback
\* goes on with the unprocessed chunk and nothing propagates.
OnEffectError(chunk) == [processed |-> chunk, propagate |-> FALSE]

\* The index of the first enabled effect from i on (Len + 1 if none).
NextEnabled(live, i) ==
    IF \E j \in i..Len(EffectOrder) : EffectEnabled(live, EffectOrder[j])
    THEN CHOOSE j \in i..Len(EffectOrder) :
            /\ EffectEnabled(live, EffectOrder[j])
            /\ \A k \in i..(j - 1) : ~EffectEnabled(live, EffectOrder[k])
    ELSE Len(EffectOrder) + 1

\* The sound device calls _audio_callback: copy the next chunk of clean audio
\* and enter pipeline.process_chunk.
CbBegin ==
    /\ cb.pc = "idle"
    /\ stream = "open"
    /\ active
    /\ cb' = [pc |-> "drain",
              chunk |-> ReadChunk(clean_audio, position, BlockSize),
              processed |-> << >>,
              fx_i |-> 0]
    /\ hist' = [hist EXCEPT !.expect_live = DrainAll(live_params, param_queue),
                            !.drained_live = << >>,
                            !.late_keys = {},
                            !.cb_failed = FALSE,
                            !.awaiting = FALSE,
                            !.resume_read =
                                IF hist.awaiting
                                THEN ReadChunk(clean_audio, position, BlockSize)
                                ELSE hist.resume_read]
    /\ UNCHANGED << constVars, playerVars, streamVars, pipeVars, workerVars, uiVars,
                    stop_pc, thread_exc >>

\* _drain_param_queue: one pass of its loop with the queue not empty.
CbDrainOne ==
    /\ cb.pc = "drain"
    /\ param_queue # << >>
    /\ LET g == QueueGet(param_queue)
           live == DictSet(live_params, <<g.item[1], g.item[2]>>, g.item[3])
       IN  /\ live_params' = live
           /\ param_queue' = g.rest
           /\ hist' = [hist EXCEPT
                          !.never_enabled =
                              /\ hist.never_enabled
                              /\ AllDisabled(live)]
    /\ UNCHANGED << constVars, playerVars, streamVars, cb, workerVars, uiVars, stop_pc,
                    thread_exc >>

\* _drain_param_queue finds the queue empty; process_chunk copies the chunk.
CbDrainDone ==
    /\ cb.pc = "drain"
    /\ param_queue = << >>
    /\ cb' = [cb EXCEPT !.pc = "fx", !.processed = cb.chunk, !.fx_i = 1]
    /\ hist' = [hist EXCEPT !.drained_live = live_params]
    /\ UNCHANGED << constVars, playerVars, streamVars, pipeVars, workerVars, uiVars,
                    stop_pc, thread_exc >>

\* process_chunk's loop: skip to the next enabled effect and run it on the
\* live map.  An exception goes to the callback's except clause; one that
\* propagated would leave the callback and make the device layer abort the
\* stream.
CbEffect ==
    /\ cb.pc = "fx"
    /\ LET j == NextEnabled(live_params, cb.fx_i)
           h == OnEffectError(cb.chunk)
       IN  /\ j <= Len(EffectOrder)
           /\ IF ~ChunkRaises(EffectOrder[j], cb.processed, SampleRate, live_params)
              THEN /\ cb' = [cb EXCEPT
                                !.processed = ChunkApply(EffectOrder[j], cb.processed,
                                                         SampleRate, live_params),
                                !.fx_i = j + 1]
                   /\ UNCHANGED << hist, cb_raised, active >>
              ELSE /\ hist' = [hist EXCEPT !.cb_failed = TRUE]
                   /\ IF h.propagate
                      THEN /\ cb' = [CbIdle EXCEPT !.chunk = cb.chunk]
                           /\ cb_raised' = "Exception"
                           /\ active' = FALSE
                      ELSE /\ cb' = [cb EXCEPT !.pc = "write",
                                               !.processed = h.processed]
                           /\ UNCHANGED << cb_raised, active >>
    /\ UNCHANGED << constVars, position, processed_buffer, processed_position, outdata,
                    stream, paused, player_stop_requested, pipeVars, workerVars,
                    uiVars, stop_pc, thread_exc >>

\* process_chunk's loop is through: normalise and return.
CbChainEnd ==
    /\ cb.pc = "fx"
    /\ NextEnabled(live_params, cb.fx_i) > Len(EffectOrder)
    /\ cb' = [cb EXCEPT !.pc = "write", !.processed = Normalize(cb.processed)]
    /\ UNCHANGED << constVars, playerVars, streamVars, pipeVars, workerVars, uiVars,
                    stop_pc, thread_exc, hist >>

\* The rest of _audio_callback: store the block in the processed buffer
\* under the lock, hand it to the device, advance position and raise
\* CallbackStop at the end of the clean audio.
CbWrite ==
    /\ cb.pc = "write"
    /\ processed_buffer' = StoreProcessed(processed_buffer, processed_position,
                                          cb.processed)
    /\ processed_position' = AdvanceProcessed(processed_buffer, processed_position,
                                              cb.processed)
    /\ outdata' = cb.processed
    /\ position' = position + BlockSize
    /\ IF position + BlockSize >= Len(clean_audio)
       THEN cb_raised' = "CallbackStop" /\ active' = FALSE
       ELSE cb_raised' = "none" /\ active' = active
    /\ cb' = [CbIdle EXCEPT !.chunk = cb.chunk]
    /\ hist' = [hist EXCEPT
                   !.pp_before = processed_position,
                   !.written = hist.written
                       \cup WriteRange(processed_position, Len(cb.processed),
                                       Len(processed_buffer)),
                   !.rewritten = \/ hist.rewritten
                                 \/ hist.written
                                      \cap WriteRange(processed_position,
                                                      Len(cb.processed),
                                                      Len(processed_buffer)) # {},
                   !.eos_signals = IF position + BlockSize >= Len(clean_audio)
                                   THEN hist.eos_signals + 1
                                   ELSE hist.eos_signals]
    /\ UNCHANGED << constVars, stream, paused, player_stop_requested, pipeVars,
                    workerVars, uiVars, stop_pc, thread_exc >>


\* --------------------------------------------- RealTimeAudioPlayer.stop
\* stop() is run by the worker (end of run(), and its except handler) and by
\* the control thread (_on_stop_transmission); stop_pc[t] is thread t's
\* position in it.  First step: set _stop_requested and test _stream.
StopBegin(t) ==
    /\ stop_pc[t] = "begin"
    /\ player_stop_requested' = TRUE
    /\ stop_pc' = [stop_pc EXCEPT ![t] = IF stream # "none" THEN "halt" ELSE "done"]
    /\ UNCHANGED << constVars, playerVars, stream, active, paused, pipeVars, cb,
                    workerVars, uiVars, thread_exc, hist >>

\* _stream.stop(); _stream.close().  stop() returns once the callback in
\* flight has returned; both calls ignore the device layer's errors, so on a
\* stream the other thread has already closed they do nothing.  With _stream
\* set to None by the other thread in the meantime the call raises
\* AttributeError.
StopHalt(t) ==
    /\ stop_pc[t] = "halt"
    /\ stream = "open" => cb.pc = "idle"
    /\ IF stream = "none"
       THEN /\ thread_exc' = [thread_exc EXCEPT ![t] = "AttributeError"]
            /\ stop_pc' = [stop_pc EXCEPT ![t] = "failed"]
            /\ UNCHANGED << stream, active >>
       ELSE /\ stream' = "closed"
            /\ active' = FALSE
            /\ stop_pc' = [stop_pc EXCEPT ![t] = "clear"]
            /\ UNCHANGED thread_exc
    /\ UNCHANGED << constVars, playerVars, paused, player_stop_requested, pipeVars, cb,
                    workerVars, uiVars, hist >>

\* self._stream = None
StopClear(t) ==
    /\ stop_pc[t] = "clear"
    /\ stream' = "none"
    /\ stop_pc' = [stop_pc EXCEPT ![t] = "done"]
    /\ UNCHANGED << constVars, playerVars, active, paused, player_stop_requested,
                    pipeVars, cb, workerVars, uiVars, thread_exc, hist >>


\* -------------------------------------- StreamingTransmissionWorker.run
\* The start of run(): progress 1 and 5, then encoder.encode.  For a name the
\* encoder does not know it raises ValueError with audio_player still None;
\* otherwise the clean audio exists and progress 10 follows.
WEncode ==
    /\ w_pc = "init"
    /\ LET r == SSTVEncoderEncode(sstv_mode, mode)
       IN  IF r.raised
           THEN /\ events' = events \o << <<"progress", 1>>, <<"progress", 5>> >>
                /\ w_pc' = "except_noplayer"
                /\ clean_audio' = clean_audio
           ELSE /\ events' = events \o << <<"progress", 1>>, <<"progress", 5>>,
                                          <<"progress", 10>> >>
                /\ w_pc' = "setup"
                /\ clean_audio' = r.audio
    /\ UNCHANGED << unitVars, sstv_mode, worker_settings, mode, np_index, effects, pipe,
                    playerVars, streamVars, pipeVars, cb, worker_stop_requested,
                    last_decoded_line, decodable_line, last_read, uiVars, stop_pc,
                    thread_exc, hist >>

\* Steps 2 to 4 of run(): progress 12, pipeline.configure(settings), progress
\* 15, the decoder and the player's construction (cursors at zero, a zeroed
\* processed buffer as long as the clean audio, no stream yet).
WSetup ==
    /\ w_pc = "setup"
    /\ events' = events \o << <<"progress", 12>>, <<"progress", 15>> >>
    /\ live_params' = Configure(worker_settings)
    /\ effects' = EffectFields(worker_settings)
    /\ hist' = [hist EXCEPT !.never_enabled = AllDisabled(Configure(worker_settings))]
    /\ position' = 0
    /\ processed_buffer' = Zeros(Len(clean_audio))
    /\ processed_position' = 0
    /\ w_pc' = "start"
    /\ UNCHANGED << unitVars, sstv_mode, worker_settings, mode, np_index, clean_audio, pipe,
                    outdata, cb_raised, streamVars, param_queue, cb,
                    worker_stop_requested, last_decoded_line, decodable_line,
                    last_read, uiVars, stop_pc, thread_exc >>

\* run()'s except handler with audio_player still None: error.emit and
\* finished.emit, no stop().
WExceptNoPlayer ==
    /\ w_pc = "except_noplayer"
    /\ events' = events \o << <<"error", 0>>, <<"finished", 0>> >>
    /\ w_pc' = "done"
    /\ UNCHANGED << constVars, playerVars, streamVars, pipeVars, cb,
                    worker_stop_requested, last_decoded_line, decodable_line,
                    last_read, uiVars, stop_pc, thread_exc, hist >>

\* audio_player.start(): reset both cursors and start the stream.
WStart ==
    /\ w_pc = "start"
    /\ position' = 0
    /\ processed_position' = 0
    /\ player_stop_requested' = FALSE
    /\ stream' = "open"
    /\ active' = TRUE
    /\ w_pc' = "poll"
    /\ UNCHANGED << constVars, processed_buffer, outdata, cb_raised, paused, pipeVars,
                    cb, worker_stop_requested, last_decoded_line, decodable_line,
                    events, last_read, uiVars, stop_pc, thread_exc, hist >>

\* The test of the live loop and, inside it, the read of the processed
\* cursor that gives decodable_line.
WPoll ==
    /\ w_pc = "poll"
    /\ IF IsActive(stream, active, paused) /\ ~worker_stop_requested
       THEN /\ decodable_line' = DecodableLine(processed_position, mode)
            /\ w_pc' = "live"
       ELSE /\ decodable_line' = decodable_line
            /\ w_pc' = "drain"
    /\ hist' = IF IsActive(stream, active, paused) /\ ~worker_stop_requested
               THEN hist
               ELSE [hist EXCEPT !.exit_pp = processed_position]
    /\ UNCHANGED << constVars, playerVars, streamVars, pipeVars, cb,
                    worker_stop_requested, last_decoded_line, events, last_read,
                    uiVars, stop_pc, thread_exc >>

\* The body both decode loops share: take the next line, fetch its samples
\* with get_processed_audio and emit line_decoded if the line is complete
\* (the live loop emits progress after it, the drain loop does not).
\* A TypeError from the slice goes to run()'s except handler.
DecodeLine(next_pc) ==
    LET line_num == NextLineNum(last_decoded_line)
        line_start == LineStartT(mode, line_num)
        line_end == line_start + LineSamplesT(mode)
        got == GetProcessedAudio(processed_buffer, processed_position,
                                 line_start, line_end, np_index)
    IN  /\ last_decoded_line' = line_num
        /\ last_read' = [lo |-> got.lo, hi |-> got.hi, pp |-> processed_position,
                         n |-> Len(got.audio)]
        /\ hist' = [hist EXCEPT !.worker_failed = hist.worker_failed \/ got.raised]
        /\ IF got.raised
           THEN /\ w_pc' = "except"
                /\ events' = events
           ELSE /\ w_pc' = next_pc
                /\ events' =
                      IF ~LineComplete(got.audio, mode) THEN events
                      ELSE IF next_pc = "live"
                      THEN events \o << <<"line_decoded", line_num>>,
                                        <<"progress", LineProgress(line_num, mode.height)>> >>
                      ELSE Append(events, <<"line_decoded", line_num>>)
        /\ UNCHANGED << constVars, playerVars, streamVars, pipeVars, cb,
                        worker_stop_requested, decodable_line, uiVars, stop_pc,
                        thread_exc >>

\* The live loop's inner while: one line that has fully passed the cursor.
WLiveLine ==
    /\ w_pc = "live"
    /\ last_decoded_line < decodable_line
    /\ last_decoded_line < mode.height - 1
    /\ DecodeLine("live")

\* The inner while is through; time.sleep(0.01) and back to the loop test.
WLiveSleep ==
    /\ w_pc = "live"
    /\ ~(last_decoded_line < decodable_line /\ last_decoded_line < mode.height - 1)
    /\ w_pc' = "poll"
    /\ UNCHANGED << constVars, playerVars, streamVars, pipeVars, cb,
                    worker_stop_requested, last_decoded_line, decodable_line, events,
                    last_read, uiVars, stop_pc, thread_exc, hist >>

\* The drain loop after playback: one of the remaining lines.
WDrainLine ==
    /\ w_pc = "drain"
    /\ last_decoded_line < mode.height - 1
    /\ DecodeLine("drain")

\* The drain loop is through; the worker calls audio_player.stop().
WDrainEnd ==
    /\ w_pc = "drain"
    /\ ~(last_decoded_line < mode.height - 1)
    /\ w_pc' = "stopping"
    /\ stop_pc' = [stop_pc EXCEPT !["worker"] = "begin"]
    /\ UNCHANGED << constVars, playerVars, streamVars, pipeVars, cb,
                    worker_stop_requested, last_decoded_line, decodable_line, events,
                    last_read, uiVars, thread_exc, hist >>


\* audio_player.stop() has returned to run(), or raised into its handler.
WStopped ==
    /\ w_pc = "stopping"
    /\ stop_pc["worker"] \in {"done", "failed"}
    /\ w_pc' = IF stop_pc["worker"] = "done" THEN "clean" ELSE "except"
    /\ stop_pc' = [stop_pc EXCEPT !["worker"] = "idle"]
    /\ thread_exc' = [thread_exc EXCEPT !["worker"] = "none"]
    /\ hist' = [hist EXCEPT !.worker_failed =
                                hist.worker_failed \/ stop_pc["worker"] = "failed"]
    /\ UNCHANGED << constVars, playerVars, streamVars, pipeVars, cb,
                    worker_stop_requested, last_decoded_line, decodable_line, events,
                    last_read, uiVars >>

\* The clean reference decode: one clean_line_decoded per line of the frame.
CleanEvents(m) == [i \in 1..m.height |-> <<"clean_line_decoded", i - 1>>]

\* The clean_line_decoded events emitted so far.
CleanLines == SelectSeq(events, LAMBDA ev : ev[1] = "clean_line_decoded")

\* Step 7's test of the stop flag; without a stop request progress 90 and the
\* batch decode of the clean audio (decode_progressive yields every line).
WClean ==
    /\ w_pc = "clean"
    /\ IF ~worker_stop_requested
       THEN /\ events' = Append(events, <<"progress", 90>>)
            /\ w_pc' = "clean_emit"
       ELSE /\ events' = events
            /\ w_pc' = "finish"
    /\ UNCHANGED << constVars, playerVars, streamVars, pipeVars, cb,
                    worker_stop_requested, last_decoded_line, decodable_line,
                    last_read, uiVars, stop_pc, thread_exc, hist >>

\* The loop over clean_lines: one clean_line_decoded, unless a stop was
\* requested meanwhile.
WCleanLine ==
    /\ w_pc = "clean_emit"
    /\ Len(CleanLines) < mode.height
    /\ ~worker_stop_requested
    /\ events' = Append(events, CleanEvents(mode)[Len(CleanLines) + 1])
    /\ UNCHANGED << constVars, playerVars, streamVars, pipeVars, cb, w_pc,
                    worker_stop_requested, last_decoded_line, decodable_line,
                    last_read, uiVars, stop_pc, thread_exc, hist >>

\* The loop is through or broken off: progress 98.
WCleanEnd ==
    /\ w_pc = "clean_emit"
    /\ ~(Len(CleanLines) < mode.height /\ ~worker_stop_requested)
    /\ events' = Append(events, <<"progress", 98>>)
    /\ w_pc' = "finish"
    /\ UNCHANGED << constVars, playerVars, streamVars, pipeVars, cb,
                    worker_stop_requested, last_decoded_line, decodable_line,
                    last_read, uiVars, stop_pc, thread_exc, hist >>

\* progress 100 and self.finished.emit() at the end of the try block.
WFinish ==
    /\ w_pc = "finish"
    /\ events' = events \o << <<"progress", 100>>, <<"finished", 0>> >>
    /\ w_pc' = "done"
    /\ UNCHANGED << constVars, playerVars, streamVars, pipeVars, cb,
                    worker_stop_requested, last_decoded_line, decodable_line,
                    last_read, uiVars, stop_pc, thread_exc, hist >>

\* run()'s except handler: it calls audio_player.stop() first.
WExcept ==
    /\ w_pc = "except"
    /\ w_pc' = "except_stopping"
    /\ stop_pc' = [stop_pc EXCEPT !["worker"] = "begin"]
    /\ UNCHANGED << constVars, playerVars, streamVars, pipeVars, cb,
                    worker_stop_requested, last_decoded_line, decodable_line, events,
                    last_read, uiVars, thread_exc, hist >>

\* The handler after its stop(): error.emit and finished.emit; an exception
\* from stop() leaves run() with neither emitted.
WExceptEmit ==
    /\ w_pc = "except_stopping"
    /\ stop_pc["worker"] \in {"done", "failed"}
    /\ IF stop_pc["worker"] = "done"
       THEN /\ events' = events \o << <<"error", 0>>, <<"finished", 0>> >>
            /\ w_pc' = "done"
       ELSE /\ events' = events
            /\ w_pc' = "dead"
    /\ stop_pc' = [stop_pc EXCEPT !["worker"] = "idle"]
    /\ UNCHANGED << constVars, playerVars, streamVars, pipeVars, cb,
                    worker_stop_requested, last_decoded_line, decodable_line,
                    last_read, uiVars, thread_exc, hist >>

\* ------------------------------------------------- the control thread
\* pipeline.update_param(effect, param, value): enqueue, nothing else.
UpdateParam(updates) ==
    /\ ui_pc = "idle"
    /\ n_updates < MaxUpdates
    /\ w_pc \notin BeforePlayer \cup {"done", "dead"}
    /\ \E u \in updates :
          /\ param_queue' = Append(param_queue, u)
          /\ live_params' = UpdateParamLive(live_params, u)
          /\ hist' = [hist EXCEPT
                         !.late_keys = IF cb.pc # "idle"
                                       THEN hist.late_keys \cup {<<u[1], u[2]>>}
                                       ELSE hist.late_keys,
                         !.sent = (<<u[1], u[2]>> :> u[3]) @@ hist.sent]
    /\ n_updates' = n_updates + 1
    /\ UNCHANGED << constVars, playerVars, streamVars, cb, workerVars, ui_pc, n_pauses,
                    ui_stopped, stop_pc, thread_exc >>

\* The control thread turns a knob during a transmission.
UIUpdateParam == UpdateParam(ParamUpdates)

\* _on_toggle_pause while not paused: pause() tests the stream.
UIPause ==
    /\ ui_pc = "idle"
    /\ ~ui_stopped
    /\ w_pc \notin BeforePlayer \cup {"done", "dead"}
    /\ ~IsPaused(paused)
    /\ n_pauses < MaxPauses
    /\ n_pauses' = n_pauses + 1
    /\ ui_pc' = IF stream # "none" /\ active THEN "pause_halt" ELSE "idle"
    /\ UNCHANGED << constVars, playerVars, streamVars, pipeVars, cb, workerVars,
                    n_updates, ui_stopped, stop_pc, thread_exc, hist >>

\* pause(): self._stream.stop(), which waits for the callback in flight.
UIPauseHalt ==
    /\ ui_pc = "pause_halt"
    /\ stream = "open" => cb.pc = "idle"
    /\ IF stream = "none"
       THEN /\ thread_exc' = [thread_exc EXCEPT !["ui"] = "AttributeError"]
            /\ ui_pc' = "idle"
            /\ active' = active
       ELSE /\ active' = FALSE
            /\ ui_pc' = "pause_flag"
            /\ thread_exc' = thread_exc
    /\ hist' = IF stream = "none" THEN hist ELSE [hist EXCEPT !.pause_pos = position]
    /\ UNCHANGED << constVars, playerVars, stream, paused, player_stop_requested,
                    pipeVars, cb, workerVars, n_updates, n_pauses, ui_stopped,
                    stop_pc >>

\* pause(): self._paused = True
UIPauseFlag ==
    /\ ui_pc = "pause_flag"
    /\ paused' = "true"
    /\ ui_pc' = "idle"
    /\ UNCHANGED << constVars, playerVars, stream, active, player_stop_requested,
                    pipeVars, cb, workerVars, n_updates, n_pauses, ui_stopped,
                    stop_pc, thread_exc, hist >>


\* _on_toggle_pause while paused: resume() tests the stream and the flag.
UIResume ==
    /\ ui_pc = "idle"
    /\ ~ui_stopped
    /\ w_pc \notin BeforePlayer \cup {"done", "dead"}
    /\ IsPaused(paused)
    /\ stream # "none"
    /\ ui_pc' = "resume_start"
    /\ UNCHANGED << constVars, playerVars, streamVars, pipeVars, cb, workerVars,
                    n_updates, n_pauses, ui_stopped, stop_pc, thread_exc, hist >>

\* resume(): self._stream.start().  On a stream the worker has closed the
\* device layer raises; with _stream set to None, AttributeError.
UIResumeStart ==
    /\ ui_pc = "resume_start"
    /\ IF stream = "open"
       THEN /\ active' = TRUE
            /\ ui_pc' = "resume_flag"
            /\ thread_exc' = thread_exc
       ELSE /\ active' = active
            /\ ui_pc' = "idle"
            /\ thread_exc' = [thread_exc EXCEPT !["ui"] =
                                 IF stream = "none" THEN "AttributeError"
                                 ELSE "PortAudioError"]
    /\ hist' = [hist EXCEPT !.awaiting = (stream = "open")]
    /\ UNCHANGED << constVars, playerVars, stream, paused, player_stop_requested,
                    pipeVars, cb, workerVars, n_updates, n_pauses, ui_stopped,
                    stop_pc >>

\* resume(): self._paused = False
UIResumeFlag ==
    /\ ui_pc = "resume_flag"
    /\ paused' = "false"
    /\ ui_pc' = "idle"
    /\ UNCHANGED << constVars, playerVars, stream, active, player_stop_requested,
                    pipeVars, cb, workerVars, n_updates, n_pauses, ui_stopped,
                    stop_pc, thread_exc, hist >>

\* _on_stop_transmission with the worker running: worker.stop() sets the
\* worker's flag, then the control thread calls audio_player.stop().
UIStop ==
    /\ ui_pc = "idle"
    /\ ~ui_stopped
    /\ w_pc \notin BeforePlayer \cup {"done", "dead"}
    /\ worker_stop_requested' = TRUE
    /\ ui_pc' = "stopping"
    /\ stop_pc' = [stop_pc EXCEPT !["ui"] = "begin"]
    /\ UNCHANGED << constVars, playerVars, streamVars, pipeVars, cb, w_pc,
                    last_decoded_line, decodable_line, events, last_read, n_updates,
                    n_pauses, ui_stopped, thread_exc, hist >>

\* audio_player.stop() has returned to _on_stop_transmission, or raised out
\* of it; the buttons are disabled only in the first case.
UIStopped ==
    /\ ui_pc = "stopping"
    /\ stop_pc["ui"] \in {"done", "failed"}
    /\ ui_pc' = "idle"
    /\ ui_stopped' = TRUE
    /\ stop_pc' = [stop_pc EXCEPT !["ui"] = "idle"]
    /\ UNCHANGED << constVars, playerVars, streamVars, pipeVars, cb, workerVars,
                    n_updates, n_pauses, thread_exc, hist >>

\* ------------------------------------------ the pipeline on its own
\* The buffers a pipeline is run on outside a transmission (the export path
\* calls configure and process): every buffer of up to MaxLen samples with
\* peak at most 1.0.
PipeAudio == [m \in ModeTable |-> UNION {[1..n -> Samples] : n \in 0..MaxLen}]

\* EffectsPipeline.process(audio) on the whole buffer.
PipeProcess ==
    /\ ~pipe.done
    /\ LET r == Process(clean_audio, SampleRate, effects)
       IN  pipe' = [pipe EXCEPT !.done = TRUE, !.raised = r.raised, !.batch = r.audio]
    /\ UNCHANGED << unitVars, sstv_mode, worker_settings, mode, np_index, clean_audio, effects,
                    playerVars, streamVars, pipeVars, cb, workerVars, uiVars,
                    stop_pc, thread_exc, hist >>

\* EffectsPipeline.process_chunk on the next n samples of the buffer, run
\* without interruption: drain, chain, normalise.
PipeChunk ==
    /\ ~pipe.raised
    /\ \E n \in 1..(Len(clean_audio) - pipe.pos) :
          LET live == DrainAll(live_params, param_queue)
              r == ChainOver(pipe.by_name, 1,
                             Slice(clean_audio, pipe.pos, pipe.pos + n),
                             SampleRate, live)
          IN  /\ live_params' = live
              /\ param_queue' = << >>
              /\ pipe' = [pipe EXCEPT !.raised = r.raised,
                                      !.applied = r.applied,
                                      !.drained = DrainAll(<< >>, param_queue),
                                      !.at_call =
                                          {e \in EffectNames : EffectEnabled(live, e)},
                                      !.calls = pipe.calls + 1,
                                      !.pos = IF r.raised THEN pipe.pos
                                              ELSE pipe.pos + n,
                                      !.out = IF r.raised THEN pipe.out
                                              ELSE pipe.out \o r.audio]
              /\ hist' = [hist EXCEPT
                             !.never_enabled =
                                 /\ hist.never_enabled
                                 /\ AllDisabled(live)]
    /\ UNCHANGED << unitVars, sstv_mode, worker_settings, mode, np_index, clean_audio, effects,
                    playerVars, streamVars, cb, workerVars, uiVars, stop_pc,
                    thread_exc >>

\* update_param on a pipeline used on its own.
PipeUpdateParam == UpdateParam(PipeParamUpdates)

\* configure(settings) called again on the pipeline with the settings it was
\* built from: the effects and the live map are rebuilt, the queue is left
\* as it is.
PipeConfigure ==
    /\ ~pipe.raised
    /\ live_params' = Configure(worker_settings)
    /\ effects' = EffectFields(worker_settings)
    /\ pipe' = [pipe EXCEPT !.effects = ConfigureEffects(pipe.effects),
                            !.by_name = ConfigureByName(pipe.by_name),
                            !.reconfigured = TRUE]
    /\ UNCHANGED << unitVars, sstv_mode, worker_settings, mode, np_index, clean_audio,
                    param_queue, playerVars, streamVars, cb, workerVars, uiVars,
                    stop_pc, thread_exc, hist >>

\* ------------------------------------------------------ specification
Callback ==
    \/ CbBegin
    \/ CbDrainOne
    \/ CbDrainDone
    \/ CbEffect
    \/ CbChainEnd
    \/ CbWrite

Worker ==
    \/ WStart
    \/ WPoll
    \/ WLiveLine
    \/ WLiveSleep
    \/ WDrainLine
    \/ WDrainEnd
    \/ WStopped
    \/ WClean
    \/ WCleanLine
    \/ WCleanEnd
    \/ WFinish
    \/ WExcept
    \/ WExceptEmit

Control ==
    \/ UIUpdateParam
    \/ UIPause
    \/ UIPauseHalt
    \/ UIPauseFlag
    \/ UIResume
    \/ UIResumeStart
    \/ UIResumeFlag
    \/ UIStop
    \/ UIStopped

PlayerStop == \E t \in Threads : StopBegin(t) \/ StopHalt(t) \/ StopClear(t)

WorkerSetup == WEncode \/ WSetup \/ WExceptNoPlayer

Next == Callback \/ WorkerSetup \/ Worker \/ Control \/ PlayerStop

Spec == Init /\ [][Next]_vars

\* A transmission whose knobs are left alone: the callback, the worker, pause,
\* resume and stop in every interleaving.
NextPlay ==
    \/ CbBegin
    \/ CbDrainDone
    \/ CbEffect
    \/ CbChainEnd
    \/ CbWrite
    \/ Worker
    \/ UIPause
    \/ UIPauseHalt
    \/ UIPauseFlag
    \/ UIResume
    \/ UIResumeStart
    \/ UIResumeFlag
    \/ UIStop
    \/ UIStopped
    \/ PlayerStop

SpecPlay == Init /\ [][NextPlay]_vars

\* A whole run of the worker, from the mode's name on: setup, then playback
\* as above.  "NoSuchMode" is in no catalogue.
ModeNames == KnownModes \cup {"NoSuchMode"}

\* The descriptors of whole runs: the ones with a sync pulse of whole samples.
RunModes == {m \in ModeTable : m.sync_t = Den}

InitRun == InitRunWith(ModeNames, RunModes, {"TypeError", "truncate"}, SettingsTable)

NextRun ==
    \/ WEncode
    \/ WSetup
    \/ WExceptNoPlayer
    \/ NextPlay

SpecRun == InitRun /\ [][NextRun]_vars

\* The encoder on its own, over every descriptor with a header of one or two
\* samples, up to three lines, and sync, gap and scan of up to MaxSeg samples
\* in steps of one tick.
EncodeModes ==
    [header_t : {Den, 2 * Den}, sync_t : 0..(MaxSeg * Den),
     gap_t : 0..(MaxSeg * Den), scan_t : 0..(MaxSeg * Den), height : 1..3]

InitEncode == InitRunWith(ModeNames, EncodeModes, {"truncate"}, {<< >>})

NextEncode == WEncode \/ WSetup \/ WExceptNoPlayer

SpecEncode == InitEncode /\ [][NextEncode]_vars

\* Playback with the knobs turned while it runs: the callback against
\* update_param, pause and resume; the worker only starts the player.
InitLive == InitWith({GapMode}, {"TypeError"}, SettingsTable, EncodedAudio)

NextLive ==
    \/ WStart
    \/ Callback
    \/ UIUpdateParam
    \/ UIPause
    \/ UIPauseHalt
    \/ UIPauseFlag
    \/ UIResume
    \/ UIResumeStart
    \/ UIResumeFlag

SpecLive == InitLive /\ [][NextLive]_vars

\* A pipeline configured and run on its own, with parameter updates arriving
\* between the calls.
InitPipe == InitWith({GapMode}, {"TypeError"}, PipeSettingsTable, PipeAudio)

NextPipe == PipeProcess \/ PipeChunk \/ PipeUpdateParam

SpecPipe == InitPipe /\ [][NextPipe]_vars

\* A pipeline fed the encoded audio in chunks of any size, with parameter
\* updates and further calls of configure in between.
InitChain == InitWith({GapMode}, {"TypeError"}, ChainSettingsTable, EncodedAudio)

NextChain == PipeChunk \/ PipeUpdateParam \/ PipeConfigure

SpecChain == InitChain /\ [][NextChain]_vars


\* A pipeline whose noise, harmonic and delay effects are switched on at
\* their neutral knob positions, and the updates sent to it: a new noise
\* type, a new harmonic count, a new delay time and a new bit depth.
TableSettings ==
    (<<"noise", "enabled">> :> 1) @@ (<<"harmonic", "enabled">> :> 1)
    @@ (<<"delay", "enabled">> :> 1) @@ (<<"delay", "mix">> :> 0)
    @@ NeutralSettings

TableUpdates ==
    { <<"noise", "type", "pink">>, <<"harmonic", "count", 5>>,
      <<"delay", "time_ms", 3>>, <<"bitcrush", "bits", 4>> }

InitTable == InitWith({GapMode}, {"TypeError"}, {TableSettings}, EncodedAudio)

TableUpdateParam == UpdateParam(TableUpdates)

NextTable == PipeChunk \/ TableUpdateParam

SpecTable == InitTable /\ [][NextTable]_vars

\* Playback through a time stretch at double speed and the bit-crusher,
\* with the stretch rate turned and the bit-crusher's rate set to zero
\* while it runs, against pause and resume.
StretchSettings ==
    (<<"timestretch", "enabled">> :> 1) @@ (<<"timestretch", "rate">> :> 2000)
    @@ (<<"bitcrush", "enabled">> :> 1)

StretchUpdates ==
    { <<"timestretch", "rate", 500>>, <<"timestretch", "rate", 1000>>,
      <<"bitcrush", "rate", 0>>, <<"bitcrush", "enabled", 0>> }

InitStretch == InitWith({GapMode}, {"TypeError"}, {StretchSettings}, EncodedAudio)

StretchUpdateParam == UpdateParam(StretchUpdates)

NextStretch ==
    \/ WStart
    \/ Callback
    \/ StretchUpdateParam
    \/ UIPause
    \/ UIPauseHalt
    \/ UIPauseFlag
    \/ UIResume
    \/ UIResumeStart
    \/ UIResumeFlag

SpecStretch == InitStretch /\ [][NextStretch]_vars

\* The two line decoders run on one line of every colour order.
InitDecode ==
    /\ InitTransmission({GapMode}, {"TypeError"}, {<< >>}, EncodedAudio)
    /\ dec \in [order : ColorOrders, seg : [1..3 -> Pixels], batch : {<< >>},
                 live : {<< >>}]
    /\ dl = DelayIdle
    /\ fit = FitIdle

\* StreamingDecoder._decode_line on the line.
DecBatch ==
    /\ dec.batch = << >>
    /\ dec' = [dec EXCEPT !.batch = DecodeLineBatch(dec.order, dec.seg)]
    /\ UNCHANGED << transVars, dl, fit >>

\* decode_line_from_audio on the line.
DecLive ==
    /\ dec.live = << >>
    /\ dec' = [dec EXCEPT !.live = DecodeLineLive(dec.order, dec.seg)]
    /\ UNCHANGED << transVars, dl, fit >>

NextDecode == DecBatch \/ DecLive

SpecDecode == InitDecode /\ [][NextDecode]_vars


\* ================================================================ claims
\* The line indices of the line_decoded events emitted so far, in order.
DecodedLines == SelectSeq(events, LAMBDA ev : ev[1] = "line_decoded")

\* C1: processed_position never decreases within a transmission: every step
\* leaves it at least as large as it was, and the only step that changes it
\* is the audio callback's store into the processed buffer, whatever pause,
\* resume, stop and the decoder's reads do in between.
C1_CursorMonotone ==
    [][ /\ processed_position' >= processed_position
        /\ processed_position' # processed_position
              => (cb.pc = "write" /\ cb'.pc = "idle") ]_vars

\* C1 witness: the cursor has reached the end of the buffer in a transmission
\* that was paused and resumed and whose decoder has read samples.
C1_Witness ==
    /\ processed_position = Len(clean_audio)
    /\ paused = "false"
    /\ last_read.n > 0

\* C2: every sample get_processed_audio hands out lies below the value the
\* cursor had at the copy: the decoder's last read ends at or below it, and so
\* would its read of any line of the frame made now, the lines that end
\* beyond the cursor included.
C2_ReadsBelowCursor ==
    /\ last_read.hi <= last_read.pp
    /\ last_read.n > 0 => last_read.n = last_read.hi - last_read.lo
    /\ \A n \in 0..(mode.height - 1) :
          LET got == GetProcessedAudio(processed_buffer, processed_position,
                                       LineStartT(mode, n),
                                       LineStartT(mode, n) + LineSamplesT(mode),
                                       np_index)
          IN  /\ got.hi <= processed_position
              /\ Len(got.audio) = got.hi - got.lo

\* C2 witness: a read whose end lay beyond the cursor: it returned samples,
\* all below the cursor, and fewer than the line it asked for.
C2_Witness ==
    /\ last_read.n > 0
    /\ last_read.hi = last_read.pp
    /\ last_read.n * Den < LineSamplesT(mode)
    /\ last_read.pp < Len(clean_audio)

\* C3: the line_decoded events of a worker run carry strictly increasing
\* line indices, the live loop and the drain loop taken together.
C3_LinesAscending ==
    \A i, j \in 1..Len(DecodedLines) :
        i < j => DecodedLines[i][2] < DecodedLines[j][2]

\* C3 witness: the worker has emitted two lines, the second one after the
\* player had stopped being active (in the drain loop).
C3_Witness ==
    /\ Len(DecodedLines) >= 2
    /\ w_pc = "drain"
    /\ last_read.pp = Len(clean_audio)
    /\ last_read.n > 0

\* C4: a transmission that played to the end of the clean audio with no stop
\* requested ends with one line_decoded event for every line 0..H-1.
C4_AllLinesDecoded ==
    ( /\ w_pc \in {"done", "dead"}
      /\ position >= Len(clean_audio)
      /\ ~worker_stop_requested
      /\ ~ui_stopped /\ ui_pc # "stopping" )
    => /\ Len(DecodedLines) = mode.height
       /\ \A n \in 0..(mode.height - 1) : DecodedLines[n + 1][2] = n


\* The result of process_chunk's chain for this callback's chunk under a
\* given live map.
ChainResult(live) == ChainFrom(1, cb.chunk, SampleRate, live)

C6_LateUpdateNeverAffects ==
    (cb.pc = "write" /\ ~hist.cb_failed /\ ~ChainResult(hist.expect_live).raised)
        => cb.processed = ChainResult(hist.expect_live).audio

\* C6 amended: the samples a callback produces are those of the chain run on
\* the live map as it was when the callback's drain found the queue empty;
\* an update enqueued after that moment stays in the queue and changes
\* neither the map nor the samples of that callback.
C6_UpdateAfterDrainNeverAffects ==
    /\ cb.pc \in {"fx", "write"} => live_params = hist.drained_live
    /\ (cb.pc = "write" /\ ~hist.cb_failed)
          => cb.processed = ChainResult(hist.drained_live).audio

\* C6 witness: a callback is about to store samples the bit-crusher changed,
\* with an update to a bit-crusher knob enqueued after its drain still queued.
C6_Witness ==
    /\ cb.pc = "write"
    /\ ~hist.cb_failed
    /\ cb.processed # cb.chunk
    /\ param_queue # << >>
    /\ hist.late_keys # {}

\* C7: during one process_chunk the live map changes only in the drain at its
\* start: no step changes it while the effects run, update_param included.
C7_LiveMapFrozenDuringEffects ==
    [][ /\ cb.pc = "fx" => live_params' = live_params
        /\ live_params' # live_params => cb.pc = "drain" ]_vars

\* C7 witness: update_param was called while the effects of a callback were
\* running: past the first effect, with the update waiting in the queue.
C7_Witness ==
    /\ cb.pc = "fx"
    /\ cb.fx_i > 1
    /\ param_queue # << >>
    /\ hist.late_keys # {}

\* C8: after configure with every effect disabled, process(a) returns a.
C8_BatchSkipsDisabled ==
    (pipe.done /\ ~pipe.raised /\ AllDisabled(effects)) => pipe.batch = clean_audio

\* C9: with every enabled entry false so far, the concatenation of the
\* process_chunk results equals the part of the buffer the chunks cover,
\* however the buffer was cut into chunks.
C9_ChunksConcatIdentity ==
    (hist.never_enabled /\ ~pipe.raised) =>
        pipe.out = Slice(clean_audio, 0, pipe.pos)

\* C9 witness: a buffer that is not constant was processed to its end in two
\* chunks or more, with an update to a disabled effect's knob drained.
C9_Witness ==
    /\ hist.never_enabled
    /\ pipe.calls >= 2
    /\ pipe.pos = Len(clean_audio)
    /\ \E i \in 1..Len(clean_audio) : clean_audio[i] # clean_audio[1]
    /\ live_params[<<"bitcrush", "bits">>] = 1

\* C9, the consequence for a transmission (a property of SpecLive): while no
\* effect has been enabled, the processed buffer up to the cursor equals the
\* clean audio.
C9_RingPrefixClean ==
    hist.never_enabled =>
        Slice(processed_buffer, 0, processed_position)
            = Slice(clean_audio, 0, processed_position)

\* C10: when effect processing raised in a callback, the block stored in the
\* processed buffer and handed to the device is all zeros, and nothing but
\* the end-of-stream signal left the callback.
C10_SilenceOnError ==
    (hist.cb_failed /\ cb.pc = "idle") =>
        /\ outdata = Zeros(BlockSize)
        /\ Slice(processed_buffer, hist.pp_before, processed_position)
               = Zeros(processed_position - hist.pp_before)
        /\ cb_raised \in {"none", "CallbackStop"}

\* The control thread's positions inside pause() and resume().
PauseResumePcs == {"pause_halt", "pause_flag", "resume_start", "resume_flag"}

\* C11: no step of pause() or resume() changes position, processed_position,
\* the processed buffer or the pipeline's live map, and the first callback
\* after a resume reads the clean audio from the position the stream was
\* halted at by the pause: BlockSize samples from there, zeros past the end.
C11_PauseResumeKeepsState ==
    [][ /\ (ui_pc \in PauseResumePcs \/ ui_pc' \in PauseResumePcs) /\ ui_pc' # ui_pc
            => UNCHANGED << position, processed_position, processed_buffer,
                            live_params >>
        /\ paused' # paused
            => UNCHANGED << position, processed_position, processed_buffer,
                            live_params >>
        /\ (hist.awaiting /\ cb.pc = "idle" /\ cb'.pc # "idle")
            => hist'.resume_read =
                  Slice(clean_audio, hist.pause_pos, hist.pause_pos + BlockSize)
                  \o Zeros(BlockSize - Len(Slice(clean_audio, hist.pause_pos,
                                                 hist.pause_pos + BlockSize))) ]_vars

\* C11 witness: playback was paused in mid-audio and resumed, and the first
\* callback after the resume has read its chunk and finished.
C11_Witness ==
    /\ hist.resume_read # << -1 >>
    /\ hist.pause_pos > 0
    /\ hist.pause_pos < Len(clean_audio)
    /\ position > hist.pause_pos
    /\ paused = "false"

\* The lines of the frame whose samples lay entirely below the cursor value pp.
LinesBelow(pp) ==
    {n \in 0..(mode.height - 1) :
        LineStartT(mode, n) + LineSamplesT(mode) <= pp * Den}

\* C12: a worker run that ended after a stop request has emitted line_decoded
\* for every line whose samples lay entirely below the cursor when the worker
\* left its polling loop, and for no line that is not entirely below the
\* cursor.
C12_StopDrainsCompleteLines ==
    (w_pc \in {"done", "dead"} /\ worker_stop_requested /\ hist.exit_pp >= 0) =>
        /\ \A n \in LinesBelow(hist.exit_pp) :
              \E i \in 1..Len(DecodedLines) : DecodedLines[i][2] = n
        /\ \A i \in 1..Len(DecodedLines) :
              DecodedLines[i][2] \in LinesBelow(processed_position)

\* The positions in events of the events of one kind.
EventIndices(kind) == {i \in 1..Len(events) : events[i][1] = kind}

\* C13: a worker run that started the player and has ended, by end of stream
\* or by the operator's stop, has emitted clean_line_decoded for the lines
\* 0..H-1 in ascending order, every one of them after the last line_decoded.
C13_CleanDecodeAfterStop ==
    w_pc \in {"done", "dead"} =>
        /\ CleanLines = CleanEvents(mode)
        /\ \A i \in EventIndices("line_decoded") :
              \A j \in EventIndices("clean_line_decoded") : i < j

\* C14: for a mode name in no catalogue the run is aborted before a stream
\* exists: the stream is never constructed or started, no audio callback
\* runs (no chunk read, no block written, both cursors at zero), no line
\* event is emitted, and the run ends with exactly the error event and
\* finished after the two progress values that precede the encoder.
C14_UnknownModeAborts ==
    sstv_mode \notin KnownModes =>
        /\ stream = "none" /\ ~active
        /\ cb = CbIdle /\ outdata = << >> /\ cb_raised = "none"
        /\ position = 0 /\ processed_position = 0
        /\ EventIndices("line_decoded") = {}
        /\ EventIndices("clean_line_decoded") = {}
        /\ w_pc \in {"init", "except_noplayer", "done"}
        /\ w_pc = "done" =>
              events = << <<"progress", 1>>, <<"progress", 5>>,
                          <<"error", 0>>, <<"finished", 0>> >>

\* C14 witness: a run with an unknown mode name has ended with its error
\* event.
C14_Witness ==
    /\ sstv_mode \notin KnownModes
    /\ w_pc = "done"
    /\ EventIndices("error") # {}

\* C15: when a step of run() has failed after the player's start, the run
\* ends with exactly one error event, and whenever an error event has been
\* emitted the stream is stopped and closed.
C15_OneErrorAfterStop ==
    /\ (hist.worker_failed /\ w_pc \in {"done", "dead"})
          => Cardinality(EventIndices("error")) = 1
    /\ EventIndices("error") # {} => (stream \in {"none", "closed"} /\ ~active)

\* C16: every value held in the live parameter map lies inside the declared
\* domain of its (effect, parameter): update_param and configure clamp or
\* reject a value outside it before an effect reads it.
C16_LiveParamsInDomain ==
    \A k \in DOMAIN live_params : InDomain(k, live_params[k])

\* The sample count the segment durations of m lead to when each of them is
\* rounded to whole samples on its own.
RoundedLength(m) ==
    RoundHalfEven(m.header_t, Den)
    + m.height * ( RoundHalfEven(m.sync_t, Den) + 4 * RoundHalfEven(m.gap_t, Den)
                 + 3 * RoundHalfEven(m.scan_t, Den) )

ProgressValues ==
    LET ps == SelectSeq(events, LAMBDA ev : ev[1] = "progress")
    IN [i \in 1..Len(ps) |-> ps[i][2]]

\* C18: the progress values of a run never decrease, stay within 0..100, and
\* 100 is only ever the last of them.
C18_ProgressMonotone ==
    /\ \A i \in 1..Len(ProgressValues) : ProgressValues[i] \in 0..100
    /\ \A i, j \in 1..Len(ProgressValues) :
           i < j => ProgressValues[i] <= ProgressValues[j]
    /\ \A i \in 1..Len(ProgressValues) :
           ProgressValues[i] = 100 => i = Len(ProgressValues)

C18_Witness ==
    /\ w_pc = "done"
    /\ Len(ProgressValues) >= 10
    /\ ProgressValues[Len(ProgressValues)] = 100
    /\ \E i \in 1..Len(ProgressValues) :
           ProgressValues[i] > 15 /\ ProgressValues[i] < 85

\* The order the effects are applied in.
FixedOrder ==
    << "phasemod", "ampmod", "syncwobble", "syncdropout", "scanline", "noise",
       "distortion", "harmonic", "bitcrush", "freqshift", "bandpass", "delay",
       "timestretch" >>

\* C19: after configure, also after a second one, the pipeline holds thirteen
\* effects, one per name, and a process_chunk that did not fail has applied
\* exactly the effects enabled in the live map, each once, in the fixed
\* order.
C19_ThirteenInOrder ==
    /\ Len(pipe.effects) = 13
    /\ pipe.effects = FixedOrder
    /\ pipe.by_name = FixedOrder
    /\ \A i, j \in 1..Len(pipe.effects) :
           pipe.effects[i] = pipe.effects[j] => i = j
    /\ (pipe.calls > 0 /\ ~pipe.raised)
          => pipe.applied = SelectSeq(FixedOrder, LAMBDA e : e \in pipe.at_call)

C19_Witness ==
    /\ pipe.reconfigured
    /\ pipe.calls >= 2
    /\ pipe.applied = << "phasemod", "bitcrush", "freqshift", "timestretch" >>
    /\ Len(pipe.effects) = 13

\* C20: end-of-stream is signalled by the first callback that leaves
\* position at or beyond the end of the clean audio and by no other: it has
\* been signalled exactly when position has reached the end, never twice,
\* and by then the whole clean audio has gone through the pipeline into the
\* processed buffer.
C20_EndOfStreamOnce ==
    /\ (hist.eos_signals >= 1) <=> (position >= Len(clean_audio))
    /\ hist.eos_signals <= 1
    /\ hist.eos_signals >= 1 => processed_position = Len(clean_audio)

\* C21: both line decoders assign the three scan segments by the mode's
\* channel order (GBR: first = G, second = B, third = R; RGB: R, G, B; YCrCb:
\* the first segment into R, G and B), and for every mode they agree.
C21_SameChannelOrder ==
    LET expected ==
            CASE dec.order = "GBR" -> << dec.seg[3], dec.seg[1], dec.seg[2] >>
              [] dec.order = "RGB" -> << dec.seg[1], dec.seg[2], dec.seg[3] >>
              [] dec.order = "YCrCb" -> << dec.seg[1], dec.seg[1], dec.seg[1] >>
    IN  /\ dec.batch # << >> => dec.batch = expected
        /\ dec.live # << >> => dec.live = expected
        /\ (dec.batch # << >> /\ dec.live # << >>) => dec.batch = dec.live

\* C22: for every parameter of the effect table, the noise type and the
\* harmonic count among them, the process_chunk that has drained an update
\* of the parameter uses the update's value.
C22_DrainedUpdateUsed ==
    \A k \in TableParams :
        (pipe.calls > 0 /\ k \in DOMAIN pipe.drained)
            => UsedParam(k, live_params, effects) = pipe.drained[k]

\* C23: for every line of the frame, the sample at which the encoder begins
\* the line and the decoder's rounded line_start differ by no more than half
\* a sample.
C23_LineStartsAgree ==
    (w_pc = "setup" /\ sstv_mode \in CustomModes)
        => \A line_num \in 0..(mode.height - 1) :
               LET d == EncoderLineStart(mode, line_num)
                        - DecoderLineStart(mode, line_num)
               IN 2 * d <= 1 /\ 2 * d >= -1

\* The delay effect on its own: an input of MaxIn samples, each silence or
\* full scale, delay times from none to the whole buffer, feedback of 0.5
\* and of 1.0 (limited to 0.9), mix of 0.5 and 1.0; fed in chunks of any
\* size.
DelayParams ==
    [time_ms : {100, 200, 300, 400, 500}, feedback : {5, 10}, mix : {5, 10}]

InitDelay ==
    /\ InitTransmission({GapMode}, {"TypeError"}, {<< >>}, EncodedAudio)
    /\ dec = DecIdle
    /\ dl \in [x : [1..MaxIn -> {0, Pow10(MaxIn)}], p : DelayParams, n : {0},
                calls : {0}, st : {DelayFresh}]
    /\ fit = FitIdle

\* DelayEffect.process_chunk on the next chunk of the input.
DelayChunk ==
    \E k \in 1..(Len(dl.x) - dl.n) :
        /\ dl' = [dl EXCEPT
                     !.st = DelayProcessChunk(dl.st,
                                SubSeq(dl.x, dl.n + 1, dl.n + k), DelayRate,
                                dl.p),
                     !.n = dl.n + k,
                     !.calls = dl.calls + 1]
        /\ UNCHANGED << transVars, dec, fit >>

NextDelay == DelayChunk

SpecDelay == InitDelay /\ [][NextDelay]_vars

\* The delay line of the recurrence: d[n] is the value written delay_samples
\* samples before sample n (0 before that), the value written at n is
\* x[n] + feedback * d[n].
RECURSIVE LineWritten(_, _, _, _)
LineWritten(x, delay_samples, feedback, n) ==
    LET d == IF n <= delay_samples THEN 0
             ELSE LineWritten(x, delay_samples, feedback, n - delay_samples)
    IN x[n] + (d * feedback) \div 10

LineDelayed(x, delay_samples, feedback, n) ==
    IF n <= delay_samples THEN 0
    ELSE LineWritten(x, delay_samples, feedback, n - delay_samples)

\* C24: with frozen parameters and a delay of 1 sample up to the buffer's
\* length, the output at sample n is (1 - mix) * x[n] + mix * d[n], the value
\* written at n is x[n] + feedback * d[n] with feedback at most 0.9, the write
\* index stays inside the buffer, and the output is that of the input taken
\* as one chunk.
C24_DelayRecurrence ==
    LET delay_samples == DelaySamples(dl.p.time_ms, DelayRate)
        feedback == Min(9, dl.p.feedback)
    IN (dl.calls > 0 /\ delay_samples >= 1
            /\ delay_samples <= DelayBufferLen(DelayRate))
        => /\ Len(dl.st.out) = dl.n
           /\ \A n \in 1..dl.n :
                 /\ dl.st.written[n]
                      = LineWritten(dl.x, delay_samples, feedback, n)
                 /\ 10 * dl.st.out[n]
                      = (10 - dl.p.mix) * dl.x[n]
                        + dl.p.mix
                          * LineDelayed(dl.x, delay_samples, feedback, n)
           /\ dl.st.pos \in 0..(Len(dl.st.buf) - 1)
           /\ Len(dl.st.buf) = DelayBufferLen(DelayRate)
           /\ dl.st.out
                = DelayProcessChunk(DelayFresh, SubSeq(dl.x, 1, dl.n),
                                    DelayRate, dl.p).out

\* The whole input fed in more than one chunk, through a delay line that
\* has wrapped round, with an echo of an echo in the output.
C24_Witness ==
    /\ dl.n = MaxIn
    /\ dl.calls >= 2
    /\ dl.n > Len(dl.st.buf)
    /\ DelaySamples(dl.p.time_ms, DelayRate) = 2
    /\ dl.p.feedback = 10
    /\ dl.x[1] # 0
    /\ \A i \in 2..MaxIn : dl.x[i] = 0
    /\ dl.st.out[5] # 0

\* The image fitter on its own: every source and frame of up to MaxSide
\* pixels a side.
InitFit ==
    /\ InitTransmission({GapMode}, {"TypeError"}, {<< >>}, EncodedAudio)
    /\ dec = DecIdle
    /\ dl = DelayIdle
    /\ fit \in [w : 1..MaxSide, h : 1..MaxSide, fw : 1..MaxSide,
                 fh : 1..MaxSide, box : {<< >>}]

\* fit_image_to_frame(image, frame_width, frame_height)
FitImage ==
    /\ fit.box = << >>
    /\ fit' = [fit EXCEPT !.box = FitImageToFrame(fit.w, fit.h, fit.fw, fit.fh)]
    /\ UNCHANGED << transVars, dec, dl >>

NextFit == FitImage

SpecFit == InitFit /\ [][NextFit]_vars

\* C25: the crop box lies in the frame and is not empty (0 <= left < right
\* <= W, 0 <= top < bottom <= H), one of its dimensions is the frame's, and
\* the two margins of the other dimension differ by at most one pixel.
C25_CropBoxInFrame ==
    fit.box # << >>
        => LET left == fit.box[1]
               top == fit.box[2]
               right == fit.box[3]
               bottom == fit.box[4]
           IN /\ 0 <= left /\ left < right /\ right <= fit.fw
              /\ 0 <= top /\ top < bottom /\ bottom <= fit.fh
              /\ \/ /\ right - left = fit.fw
                    /\ Abs(top - (fit.fh - bottom)) <= 1
                 \/ /\ bottom - top = fit.fh
                    /\ Abs(left - (fit.fw - right)) <= 1

\* C26: between two callbacks processed_position is min(position,
\* len(clean_audio)), and a callback moves position by the block size and
\* processed_position by as much, up to the buffer's length: through pauses
\* and resumes, and when the effects raised.
C26_CursorsTogether ==
    /\ cb.pc = "idle"
          => processed_position = Min(position, Len(clean_audio))
    /\ (w_pc \notin BeforePlayer /\ cb.pc = "idle" /\ position > 0)
          => /\ position % BlockSize = 0
             /\ Len(outdata) = BlockSize
             /\ hist.pp_before = Min(position - BlockSize, Len(clean_audio))

\* A callback whose effects raised has ended, after a pause, with the
\* write cursor at the end of the buffer.
C26_Witness ==
    /\ cb.pc = "idle"
    /\ hist.cb_failed
    /\ n_pauses >= 1
    /\ position > Len(clean_audio)
    /\ processed_position = Len(clean_audio)

\* C27: in no interleaving of the control thread's stop() with the worker's
\* is_active() and stop() does a call of stop() use a stream reference that
\* has been set to None, and no stream is stopped and closed by both.
C27_StopSafe ==
    /\ \A t \in Threads : stop_pc[t] # "failed"
    /\ ~(\A t \in Threads : stop_pc[t] = "clear")

\* The positions in the queue of the updates of key k.
Pending(k) == {i \in 1..Len(param_queue) : <<param_queue[i][1], param_queue[i][2]>> = k}

\* C28: a key whose updates have all been drained holds the value of the
\* most recent update_param for it, or its configured value if there was
\* none; while updates of a key wait in the queue, the most recent is the
\* last of them (enqueue order is kept, none is dropped).
C28_LatestUpdateWins ==
    w_pc \notin BeforePlayer =>
        \A k \in DOMAIN live_params \cup DOMAIN hist.sent :
            LET latest == IF k \in DOMAIN hist.sent THEN hist.sent[k]
                          ELSE Configure(worker_settings)[k]
                pend == Pending(k)
            IN  IF pend = {}
                THEN k \in DOMAIN live_params /\ live_params[k] = latest
                ELSE /\ param_queue[CHOOSE i \in pend : \A j \in pend : j <= i][3]
                          = latest
                     /\ Cardinality(pend) <= n_updates

\* Of two updates of one key with different values the drain has applied
\* the first, and the second is the next it takes; the other keys hold
\* their configured values.
C28_Witness ==
    /\ cb.pc = "drain"
    /\ param_queue = << <<"timestretch", "rate", 500>> >>
    /\ n_updates = 2
    /\ live_params[<<"timestretch", "rate">>] = 1000
    /\ Configure(worker_settings)[<<"timestretch", "rate">>] = 2000
    /\ hist.sent[<<"timestretch", "rate">>] = 500
    /\ hist.expect_live[<<"timestretch", "rate">>] = 500
    /\ live_params[<<"bitcrush", "bits">>]
         = Configure(worker_settings)[<<"bitcrush", "bits">>]

\* C29: a step changes the processed buffer only at indices at or above the
\* cursor it finds, and the cursor is past them when the step is over (the
\* store and the advance are one step for a reader); no index is stored to
\* twice, the indices stored to are exactly those below the cursor, and no
\* sample below the cursor changes.
C29_WrittenOnceAboveCursor ==
    [][ /\ \A i \in 1..Len(processed_buffer) :
              processed_buffer'[i] # processed_buffer[i]
                  => (i > processed_position /\ i <= processed_position')
        /\ Len(processed_buffer') = Len(processed_buffer)
        /\ ~hist'.rewritten
        /\ w_pc' \notin BeforePlayer \cup {"start"}
              => hist'.written = 0..(processed_position' - 1) ]_vars

\* The whole buffer has been stored to, the decoder has copied samples from
\* it, and a further callback, after a pause and resume at the end, has found
\* no room to store to.
C29_Witness ==
    /\ processed_position = Len(clean_audio)
    /\ hist.written = 0..(Len(clean_audio) - 1)
    /\ hist.eos_signals = 2
    /\ last_read.n > 0
    /\ cb.pc = "idle"

\* C30: a worker run that has ended, normally, by the operator's stop or by
\* an error, has emitted finished exactly once; and no line, clean-line or
\* progress event ever follows a finished event.
C30_FinishedOnceAndLast ==
    /\ w_pc \in {"done", "dead"} => Cardinality(EventIndices("finished")) = 1
    /\ Cardinality(EventIndices("finished")) <= 1
    /\ \A i \in EventIndices("finished") :
          \A j \in EventIndices("line_decoded")
                    \cup EventIndices("clean_line_decoded")
                    \cup EventIndices("progress") : j < i

====
